---- MODULE Spec2Model ----
(***************************************************************************)
(* The triad store of SeirChain (src/src/core/TriadMatrix.js): a LevelDB   *)
(* store of triads and a metadata record, an in-memory mirror of it, the   *)
(* validator set, and the asynchronous operations on them.                 *)
(*                                                                         *)
(* Every async function is cut at its awaits on the database: one action   *)
(* issues the database operation, one lets it take effect in the database  *)
(* (the operations of different calls take effect in any order), and one   *)
(* runs the continuation up to the next await.  Synchronous code between   *)
(* two awaits is one action.                                               *)
(*                                                                         *)
(* Scores are JavaScript doubles in the source.  Here they are fixed-point *)
(* numbers in thousandths (ONE = 1.0), divisions and the square root       *)
(* rounding down.  Timestamps (Date.now()), the logger and lastError are   *)
(* not part of the model; a triad id is the next unused number in place of *)
(* 16 random bytes.                                                        *)
(*                                                                         *)
(* The P2P node (src/src/network/P2PNode.js) is the second part: its peer  *)
(* map, the WebSocket objects it holds and the events the ws library       *)
(* delivers on them.  Every event handler runs to completion and is one    *)
(* action.  The store specifications run without a node attached, the node *)
(* specification with an idle store.                                       *)
(***************************************************************************)
EXTENDS Integers, Sequences, FiniteSets, TLC

\* The number of calls on one TriadMatrix instance that get past their
\* synchronous checks, the init() of its constructor included.
MaxOps == 3

\* Math.min(1, ...) and 1 - distance/complexity: the score 1.0, in thousandths.
ONE == 1000
\* let consensusScore = 0.7
BASE_SCORE == 700
\* consensusScore += connectionScore * 0.3
CONNECTION_WEIGHT == 300
DEFAULT_DIMENSIONS == 3
DEFAULT_COMPLEXITY == 4
DEFAULT_CONSENSUS_THRESHOLD == 670

\* Validator ids the callers pass: two well-formed ones and the empty string.
ValidatorIds == {"v1", "v2"}
ValidatorInputs == ValidatorIds \cup {""}
\* The creator ids createTriad is called with.  The triads a previous run
\* left were created by v1.
CreatorInputs == {"v2", ""}
\* Triad payloads: a non-empty string and null.
DataInputs == {"data", "null"}

\* The options objects passed to the constructor: none ({}), and one that
\* shrinks the space, narrows the search radius and raises the threshold
\* above the base score.
NoOption == 0
DefaultOptions ==
  [dimensions |-> NoOption, complexity |-> NoOption, consensusThreshold |-> NoOption]
OtherOptions ==
  [dimensions |-> 2, complexity |-> 3, consensusThreshold |-> 750]

\* The positions calculateOptimalPosition is let to draw, out of the
\* dimensions^3 it can: pairwise at distance 1, 3 and sqrt(12).
PositionInputs == { <<0, 0, 0>>, <<2, 2, 2>> }

VARIABLES
  dimensions,          \* this.dimensions
  complexity,          \* this.complexity
  consensusThreshold,  \* this.consensusThreshold, in thousandths
  matrix,              \* this.matrix: the flat list of the mirror
  triads,              \* this.triads: the mirror's index by id
  validators,          \* this.validators
  isInitialized,       \* this.isInitialized
  dbTriads,            \* the persisted records under triad:<id>
  dbMeta,              \* the persisted record under matrix:state_metadata
  calls,               \* the calls in flight, each with its position and locals
  invoked,             \* the number of calls that got past their synchronous checks
  emitted,             \* the number of events emitted so far, and the last one
  ret,                 \* how the operation that completed last ended
  evaluated,           \* per triad id, the validateTriad calls that computed a score
  peers,               \* this.peers of the P2P node: peer id -> entry
  sockets,             \* the WebSocket objects made so far, inbound and outbound
  fault,               \* an exception or an 'error' event reached the process
  ledger,              \* the ledger collaborator, the calls made to it, the SYNC_LEDGER in service
  handled,             \* the messages the node has received and the broadcasts asked of it
  shutdown,            \* close(): where it stands and the sockets it asked to close
  miner,               \* the mining client: its place in its loop and the rewards minted
  remote,              \* a second node, which dials this one, and the link between the two
  tokenomics           \* the Tokenomics object: this.ledger, this.totalSupply, its store and its calls

vars == << dimensions, complexity, consensusThreshold, matrix, triads, validators,
           isInitialized, dbTriads, dbMeta, calls, invoked, emitted, ret, evaluated,
           peers, sockets, fault, ledger, handled, shutdown, miner, remote, tokenomics >>
matrixVars == << dimensions, complexity, consensusThreshold, matrix, triads, validators,
                 isInitialized, dbTriads, dbMeta, calls, invoked, emitted, ret, evaluated >>
network == << peers, sockets, fault, ledger, handled, shutdown, remote >>
service == << ledger, handled, shutdown, remote >>
config == << dimensions, complexity, consensusThreshold >>
mirror == << matrix, triads >>
client == << miner, tokenomics >>
db == << dbTriads, dbMeta >>

----------------------------------------------------------------------------
\* Values

NoTriad ==
  [ id |-> 0, data |-> "", validator |-> "", position |-> <<0, 0, 0>>,
    connections |-> <<>>, validated |-> FALSE, consensus |-> 0,
    validationAttempts |-> 0 ]

NoMeta ==
  [ present |-> FALSE, dimensions |-> 0, complexity |-> 0, consensusThreshold |-> 0,
    validators |-> {}, triadsCount |-> 0, validatedTriadsCount |-> 0 ]

Idle ==
  [ op |-> "none", pc |-> "done", triadId |-> 0, validatorId |-> "",
    triad |-> NoTriad, meta |-> NoMeta, scan |-> <<>> ]

\* How a call ended: the operation, and what it resolved to, returned or
\* was rejected with.
NoReturn == [ op |-> "none", outcome |-> "none", error |-> "", triad |-> NoTriad, added |-> FALSE ]

Resolved(op, t) ==
  [ op |-> op, outcome |-> "resolved", error |-> "", triad |-> t, added |-> FALSE ]
Rejected(op, e) ==
  [ op |-> op, outcome |-> "rejected", error |-> e, triad |-> NoTriad, added |-> FALSE ]
Returned(op, b) ==
  [ op |-> op, outcome |-> "returned", error |-> "", triad |-> NoTriad, added |-> b ]

Max(a, b) == IF a >= b THEN a ELSE b
Min(a, b) == IF a <= b THEN a ELSE b

RECURSIVE SqrtBetween(_, _, _)
SqrtBetween(n, lo, hi) ==
  IF hi - lo <= 1 THEN lo
  ELSE LET mid == (lo + hi) \div 2
       IN IF mid * mid <= n THEN SqrtBetween(n, mid, hi) ELSE SqrtBetween(n, lo, mid)
\* Math.sqrt of n / ONE^2 in thousandths, rounded down (n < 2^30).
Sqrt(n) == SqrtBetween(n, 0, 32768)

RECURSIVE SumSeq(_)
SumSeq(s) == IF s = <<>> THEN 0 ELSE Head(s) + SumSeq(Tail(s))

\* The ids in key order, as the iterator over triad: .. triad:~ yields them.
RECURSIVE KeyOrder(_)
KeyOrder(S) ==
  IF S = {} THEN <<>>
  ELSE LET m == CHOOSE x \in S : \A y \in S : x <= y
       IN <<m>> \o KeyOrder(S \ {m})

----------------------------------------------------------------------------
\* Argument and configuration checks

validateDimensions(d) == IF d = NoOption \/ d <= 0 THEN DEFAULT_DIMENSIONS ELSE d
validateComplexity(c) == IF c = NoOption \/ c <= 0 THEN DEFAULT_COMPLEXITY ELSE c
validateConsensusThreshold(t) ==
  IF t = NoOption \/ t <= 0 \/ t > ONE THEN DEFAULT_CONSENSUS_THRESHOLD ELSE t

\* The check left out: every id passes.
MutValidateValidator_AcceptsEmpty(v) == TRUE
\* validateValidator throws unless this holds.
validateValidator(v) == v /= ""
\* if (!data) left out: null passes.
MutValidateTriadData_AcceptsNull(d) == TRUE
\* validateTriadData throws unless this holds.
validateTriadData(d) == d /= "null"
\* validateInitialization throws unless this holds.
validateInitialization == isInitialized

----------------------------------------------------------------------------
\* Consensus scoring

Square(a) == a * a

calculateDistance(pos1, pos2) ==
  Sqrt((Square(pos1[1] - pos2[1]) + Square(pos1[2] - pos2[2]) + Square(pos1[3] - pos2[3]))
       * ONE * ONE)

\* distance > 0 left out of the filter.
MutGetTriadConnections_ZeroDistance(triad) ==
  SelectSeq(matrix,
    LAMBDA t : /\ t.id /= triad.id
               /\ calculateDistance(t.position, triad.position) <= complexity * ONE)

\* this.matrix.filter(...): the mirror's triads within reach of the subject.
getTriadConnections(triad) ==
  SelectSeq(matrix,
    LAMBDA t : /\ t.id /= triad.id
               /\ calculateDistance(t.position, triad.position) <= complexity * ONE
               /\ calculateDistance(t.position, triad.position) > 0)

calculateConnectionScore(triad1, triad2) ==
  LET distance == calculateDistance(triad1.position, triad2.position)
  IN IF distance > complexity * ONE THEN 0
     ELSE Max(0, ONE - (distance \div complexity))

\* One neighbour's entry of validationScores.
ConnectionContribution(triad, conn) ==
  IF conn.validated THEN calculateConnectionScore(triad, conn)
  ELSE calculateConnectionScore(triad, conn) \div 2

\* The score before Math.min(1, ...).
RawConsensus(triad) ==
  LET connections == getTriadConnections(triad)
      scores == [k \in 1..Len(connections) |-> ConnectionContribution(triad, connections[k])]
  IN IF Len(connections) > 0
     THEN BASE_SCORE + ((SumSeq(scores) \div Len(scores)) * CONNECTION_WEIGHT) \div ONE
     ELSE BASE_SCORE

\* The membership test left out: every validator gets the base score.
MutCalculateConsensus_AnyValidator(triad, currentValidatorId) ==
  Min(ONE, RawConsensus(triad))

\* An unregistered validator is answered with the marker -1 in place of 0.
MutCalculateConsensus_Marker(triad, currentValidatorId) ==
  IF currentValidatorId \notin validators THEN 0 - ONE
  ELSE Min(ONE, RawConsensus(triad))

calculateConsensus(triad, currentValidatorId) ==
  IF currentValidatorId \notin validators THEN 0
  ELSE Min(ONE, RawConsensus(triad))

\* if (triad.validated) left out: every record read is evaluated.
MutTriadValidated_Never(triad) == FALSE

\* if (triad.validated): the record read is already validated.
TriadValidated(triad) == triad.validated

\* The flag is decided against the default threshold, not the configured one.
MutValidatedRecord_DefaultThreshold(triad, consensusScore) ==
  [ triad EXCEPT !.consensus = consensusScore,
                 !.validationAttempts = triad.validationAttempts + 1,
                 !.validated = (consensusScore >= DEFAULT_CONSENSUS_THRESHOLD) ]

\* The record validateTriad builds from the one it read and the score.
ValidatedRecord(triad, consensusScore) ==
  [ triad EXCEPT !.consensus = consensusScore,
                 !.validationAttempts = triad.validationAttempts + 1,
                 !.validated = (consensusScore >= consensusThreshold) ]

----------------------------------------------------------------------------
\* Snapshots

CountValidated(list) == Len(SelectSeq(list, LAMBDA t : t.validated))

\* The stateMetadata object saveMatrixState builds from the memory state.
StateMetadata ==
  [ present |-> TRUE, dimensions |-> dimensions, complexity |-> complexity,
    consensusThreshold |-> consensusThreshold, validators |-> validators,
    triadsCount |-> Len(matrix), validatedTriadsCount |-> CountValidated(matrix) ]

getMatrixState ==
  [ dimensions |-> dimensions, complexity |-> complexity, triadsCount |-> Len(matrix),
    triads |-> { triads[id] : id \in DOMAIN triads }, validators |-> validators,
    consensusThreshold |-> consensusThreshold, isInitialized |-> isInitialized ]

\* The ids in use: persisted, mirrored or carried by a call in flight.
UsedIds ==
  DOMAIN dbTriads \cup DOMAIN triads
    \cup { calls[i].triad.id : i \in 1..Len(calls) } \cup { 0 }

\* generateTriadId: an id no triad has.
generateTriadId == 1 + CHOOSE m \in UsedIds : \A x \in UsedIds : x <= m

\* calculateOptimalPosition: each coordinate is in 0 .. dimensions - 1.
calculateOptimalPosition ==
  { p \in PositionInputs : \A k \in 1..3 : p[k] >= 0 /\ p[k] < dimensions }

Evaluated(id) == IF id \in DOMAIN evaluated THEN evaluated[id] ELSE [calls |-> 0, registered |-> 0]

Put(f, k, v) == [x \in DOMAIN f \cup {k} |-> IF x = k THEN v ELSE f[x]]

NoTriads == [x \in {} |-> NoTriad]

\* The miner as its constructor leaves it: not yet initialised, nothing to
\* validate, no cycle run, no reward minted.
initializeState ==
  [ pc |-> "init", queue |-> << >>, cycles |-> 0, minted |-> [x \in {} |-> 0] ]

\* dbConnection = null: no ledger collaborator, no call made to one, no
\* SYNC_LEDGER being served, none served.
NoLedger == [ dbConnection |-> FALSE, calls |-> << >>, syncs |-> << >>, results |-> << >> ]
\* close() has not been called.
NotClosing == [ pc |-> "running", asked |-> {} ]

\* new Map(): no peer.
NoPeers == [x \in {} |-> [ws |-> 0, direction |-> "", url |-> ""]]

\* No second node yet: it has no peer and no socket, its connection is none
\* of this node's sockets, and neither side has handled an envelope of the
\* other.
NoRemote == [ peers |-> NoPeers, sockets |-> << >>, link |-> 0, delivered |-> 0, received |-> 0 ]

\* A Tokenomics object on an empty store with its ledger loaded: no account,
\* nothing minted, no call in flight and no write pending.
NoBalances == [ a \in {} |-> 0 ]
NoTokenomics ==
  [ ledger |-> NoBalances, totalSupply |-> 0, accounts |-> NoBalances, supply |-> 0,
    calls |-> << >>, writes |-> {}, invoked |-> 0, ret |-> "none" ]

----------------------------------------------------------------------------
\* The processes started: each with the options it passes to the constructor
\* and the store it finds.  A store is empty or was left by a previous run:
\* two under the default configuration (addValidator("v1"), createTriad once
\* or twice by v1), one under the other options (addValidator("v1"), createTriad twice
\* by v1, validateTriad of the first by v1, which scored 0.799 here).

PriorTriad(id, pos, validated, score, attempts) ==
  [ id |-> id, data |-> "data", validator |-> "v1", position |-> pos,
    connections |-> <<>>, validated |-> validated,
    consensus |-> score, validationAttempts |-> attempts ]

PriorMeta(options, n) ==
  [ present |-> TRUE, dimensions |-> validateDimensions(options.dimensions),
    complexity |-> validateComplexity(options.complexity),
    consensusThreshold |-> validateConsensusThreshold(options.consensusThreshold),
    validators |-> {"v1"}, triadsCount |-> n, validatedTriadsCount |-> 0 ]

StartInputs ==
  { [ options |-> DefaultOptions,
      store |-> [ triads |-> NoTriads, meta |-> NoMeta ] ],
    [ options |-> DefaultOptions,
      store |-> [ triads |-> Put(NoTriads, 1, PriorTriad(1, <<2, 2, 2>>, FALSE, 0, 0)),
                  meta |-> PriorMeta(DefaultOptions, 1) ] ],
    [ options |-> OtherOptions,
      store |-> [ triads |-> Put(Put(NoTriads, 1, PriorTriad(1, <<2, 2, 2>>, FALSE, 0, 0)),
                                 2, PriorTriad(2, <<0, 0, 0>>, FALSE, 0, 0)),
                  meta |-> PriorMeta(DefaultOptions, 2) ] ],
    [ options |-> DefaultOptions,
      store |-> [ triads |-> Put(Put(NoTriads, 1, PriorTriad(1, <<0, 0, 0>>, TRUE, 799, 1)),
                                 2, PriorTriad(2, <<1, 0, 0>>, FALSE, 0, 0)),
                  meta |-> PriorMeta(OtherOptions, 2) ] ] }

\* The state the constructor leaves: the options validated, the mirror empty,
\* and init() waiting for its read of the metadata record.
Init ==
  \E start \in StartInputs :
   LET options == start.options
       store == start.store
   IN
    /\ dimensions = validateDimensions(options.dimensions)
    /\ complexity = validateComplexity(options.complexity)
    /\ consensusThreshold = validateConsensusThreshold(options.consensusThreshold)
    /\ matrix = <<>>
    /\ triads = NoTriads
    /\ validators = {}
    /\ isInitialized = FALSE
    /\ dbTriads = store.triads
    /\ dbMeta = store.meta
    /\ calls = << [Idle EXCEPT !.op = "init", !.pc = "getmeta"] >>
    /\ invoked = 1
    /\ emitted = [count |-> 0, event |-> "none", triad |-> NoTriad]
    /\ ret = NoReturn
    /\ evaluated = [ id \in DOMAIN store.triads |->
                       [ calls |-> store.triads[id].validationAttempts,
                         registered |-> store.triads[id].validationAttempts ] ]
    /\ peers = NoPeers
    /\ sockets = << >>
    /\ fault = FALSE
    /\ ledger = NoLedger
    /\ handled = << >>
    /\ shutdown = NotClosing
    /\ miner = initializeState
    /\ tokenomics = NoTokenomics
    /\ remote = NoRemote

\* emit(event, triad): the event is counted and kept as the last one.
Emit(event, triad) == [count |-> emitted.count + 1, event |-> event, triad |-> triad]

At(i, op, pc) == i \in 1..Len(calls) /\ calls[i].op = op /\ calls[i].pc = pc

CanInvoke == invoked < MaxOps

\* The calls in flight once call i has ended.
Without(s, i) == SubSeq(s, 1, i - 1) \o SubSeq(s, i + 1, Len(s))

----------------------------------------------------------------------------
\* init() and loadMatrixState()

\* db.get('matrix:state_metadata') is answered.
InitGetLands(i) ==
  /\ At(i, "init", "getmeta")
  /\ calls' = [calls EXCEPT ![i].pc = "gotmeta", ![i].meta = dbMeta]
  /\ UNCHANGED << invoked, network, client >>
  /\ UNCHANGED << config, mirror, validators, isInitialized, db, emitted, ret, evaluated >>

\* The record was found: the configuration and the validator set are taken
\* from it, the mirror is emptied and the iterator over the triads is opened.
InitLoaded(i) ==
  /\ At(i, "init", "gotmeta")
  /\ calls[i].meta.present
  /\ dimensions' = calls[i].meta.dimensions
  /\ complexity' = calls[i].meta.complexity
  /\ consensusThreshold' = calls[i].meta.consensusThreshold
  /\ validators' = calls[i].meta.validators
  /\ matrix' = <<>>
  /\ triads' = NoTriads
  /\ calls' = [calls EXCEPT ![i].pc = "scan",
                            ![i].scan = [k \in 1..Cardinality(DOMAIN dbTriads) |->
                                           dbTriads[KeyOrder(DOMAIN dbTriads)[k]]]]
  /\ UNCHANGED << invoked, network, client >>
  /\ UNCHANGED << isInitialized, db, emitted, ret, evaluated >>

\* The record was not found: the current state is saved as the new record.
InitNotFound(i) ==
  /\ At(i, "init", "gotmeta")
  /\ ~calls[i].meta.present
  /\ calls' = [calls EXCEPT ![i].pc = "putmeta", ![i].meta = StateMetadata]
  /\ UNCHANGED << invoked, network, client >>
  /\ UNCHANGED << config, mirror, validators, isInitialized, db, emitted, ret, evaluated >>

\* One turn of the for await loop: the next record goes into the mirror.
InitScan(i) ==
  /\ At(i, "init", "scan")
  /\ calls[i].scan /= <<>>
  /\ matrix' = Append(matrix, Head(calls[i].scan))
  /\ triads' = Put(triads, Head(calls[i].scan).id, Head(calls[i].scan))
  /\ calls' = [calls EXCEPT ![i].scan = Tail(calls[i].scan)]
  /\ UNCHANGED << invoked, network, client >>
  /\ UNCHANGED << config, validators, isInitialized, db, emitted, ret, evaluated >>

\* The iterator is exhausted, loadMatrixState returns and init() finishes.
InitScanDone(i) ==
  /\ At(i, "init", "scan")
  /\ calls[i].scan = <<>>
  /\ isInitialized' = TRUE
  /\ emitted' = Emit("initialized", NoTriad)
  /\ calls' = Without(calls, i)
  /\ UNCHANGED << invoked, network, client >>
  /\ UNCHANGED << config, mirror, validators, db, ret, evaluated >>

\* The batch of saveMatrixState is applied.
InitSaveLands(i) ==
  /\ At(i, "init", "putmeta")
  /\ dbMeta' = calls[i].meta
  /\ calls' = [calls EXCEPT ![i].pc = "wrotemeta"]
  /\ UNCHANGED << invoked, network, client >>
  /\ UNCHANGED << config, mirror, validators, isInitialized, dbTriads, emitted, ret, evaluated >>

InitSaved(i) ==
  /\ At(i, "init", "wrotemeta")
  /\ isInitialized' = TRUE
  /\ emitted' = Emit("initialized", NoTriad)
  /\ calls' = Without(calls, i)
  /\ UNCHANGED << invoked, network, client >>
  /\ UNCHANGED << config, mirror, validators, db, ret, evaluated >>

----------------------------------------------------------------------------
\* addValidator(validatorId)

AddValidatorInvalid(validatorId) ==
  /\ CanInvoke
  /\ ~validateValidator(validatorId)
  /\ ret' = Rejected("addValidator", "InvalidInput")
  /\ UNCHANGED << invoked, network, client >>
  /\ UNCHANGED << config, mirror, validators, isInitialized, db, calls, emitted, evaluated >>

\* return true for an id the set already has.
MutAddValidatorKnown_ReturnsTrue(validatorId) ==
  /\ CanInvoke
  /\ validateValidator(validatorId)
  /\ validatorId \in validators
  /\ ret' = Returned("addValidator", TRUE)
  /\ UNCHANGED << invoked, network, client >>
  /\ UNCHANGED << config, mirror, validators, isInitialized, db, calls, emitted, evaluated >>

AddValidatorKnown(validatorId) ==
  /\ CanInvoke
  /\ validateValidator(validatorId)
  /\ validatorId \in validators
  /\ ret' = Returned("addValidator", FALSE)
  /\ UNCHANGED << invoked, network, client >>
  /\ UNCHANGED << config, mirror, validators, isInitialized, db, calls, emitted, evaluated >>

\* The id joins the set and saveMatrixState() is started, not awaited.
AddValidatorNew(validatorId) ==
  /\ CanInvoke
  /\ validateValidator(validatorId)
  /\ validatorId \notin validators
  /\ validators' = validators \cup {validatorId}
  /\ invoked' = invoked + 1
  /\ UNCHANGED << network, client >>
  /\ UNCHANGED << config, mirror, isInitialized, db, emitted, evaluated >>
  /\ calls' = Append(calls, [Idle EXCEPT !.op = "addValidator", !.pc = "putmeta",
                                         !.validatorId = validatorId,
                                         !.meta = StateMetadata'])
  /\ ret' = Returned("addValidator", TRUE)

AddValidatorSaveLands(i) ==
  /\ At(i, "addValidator", "putmeta")
  /\ dbMeta' = calls[i].meta
  /\ calls' = Without(calls, i)
  /\ UNCHANGED << invoked, network, client >>
  /\ UNCHANGED << config, mirror, validators, isInitialized, dbTriads, emitted, ret, evaluated >>

----------------------------------------------------------------------------
\* createTriad(data, validator)

CreateTriadRejected(data, validator) ==
  /\ CanInvoke
  /\ ~validateInitialization \/ ~validateTriadData(data) \/ ~validateValidator(validator)
  /\ ret' = Rejected("createTriad",
                     IF ~validateInitialization THEN "NotInitialized" ELSE "InvalidInput")
  /\ UNCHANGED << invoked, network, client >>
  /\ UNCHANGED << config, mirror, validators, isInitialized, db, calls, emitted, evaluated >>

\* The record is built, pushed into the mirror, and its batch is issued.
CreateTriad(data, validator, position) ==
  /\ CanInvoke
  /\ validateInitialization
  /\ validateTriadData(data)
  /\ validateValidator(validator)
  /\ position \in calculateOptimalPosition
  /\ LET triad == [ id |-> generateTriadId, data |-> data, validator |-> validator,
                    position |-> position, connections |-> <<>>, validated |-> FALSE,
                    consensus |-> 0, validationAttempts |-> 0 ]
     IN /\ matrix' = Append(matrix, triad)
        /\ triads' = Put(triads, triad.id, triad)
        /\ calls' = Append(calls, [Idle EXCEPT !.op = "createTriad", !.pc = "put",
                                               !.triadId = triad.id,
                                               !.validatorId = validator,
                                               !.triad = triad])
  /\ invoked' = invoked + 1
  /\ UNCHANGED << network, client >>
  /\ UNCHANGED << config, validators, isInitialized, db, emitted, ret, evaluated >>

\* The batch is acknowledged without having been applied.
MutCreateTriadPutLands_NotApplied(i) ==
  /\ At(i, "createTriad", "put")
  /\ calls' = [calls EXCEPT ![i].pc = "wrote"]
  /\ UNCHANGED << invoked, network, client >>
  /\ UNCHANGED << config, mirror, validators, isInitialized, db, emitted, ret, evaluated >>

CreateTriadPutLands(i) ==
  /\ At(i, "createTriad", "put")
  /\ dbTriads' = Put(dbTriads, calls[i].triadId, calls[i].triad)
  /\ calls' = [calls EXCEPT ![i].pc = "wrote"]
  /\ UNCHANGED << invoked, network, client >>
  /\ UNCHANGED << config, mirror, validators, isInitialized, dbMeta, emitted, ret, evaluated >>

\* await this.saveMatrixState(): the metadata is built and its batch issued.
CreateTriadSave(i) ==
  /\ At(i, "createTriad", "wrote")
  /\ calls' = [calls EXCEPT ![i].pc = "putmeta", ![i].meta = StateMetadata]
  /\ UNCHANGED << invoked, network, client >>
  /\ UNCHANGED << config, mirror, validators, isInitialized, db, emitted, ret, evaluated >>

CreateTriadSaveLands(i) ==
  /\ At(i, "createTriad", "putmeta")
  /\ dbMeta' = calls[i].meta
  /\ calls' = [calls EXCEPT ![i].pc = "wrotemeta"]
  /\ UNCHANGED << invoked, network, client >>
  /\ UNCHANGED << config, mirror, validators, isInitialized, dbTriads, emitted, ret, evaluated >>

\* emit('triadCreated', triad); return triad
CreateTriadAck(i) ==
  /\ At(i, "createTriad", "wrotemeta")
  /\ emitted' = Emit("triadCreated", calls[i].triad)
  /\ ret' = Resolved("createTriad", calls[i].triad)
  /\ calls' = Without(calls, i)
  /\ UNCHANGED << invoked, network, client >>
  /\ UNCHANGED << config, mirror, validators, isInitialized, db, evaluated >>

\* await this.db.batch(batch) rejects: the catch block rethrows, and the
\* record pushed into the mirror before the write stays there.
CreateTriadPutFails(i) ==
  /\ At(i, "createTriad", "put")
  /\ ret' = Rejected("createTriad", "WriteFailed")
  /\ calls' = Without(calls, i)
  /\ UNCHANGED << invoked, network, client >>
  /\ UNCHANGED << config, mirror, validators, isInitialized, db, emitted, evaluated >>

\* The batch of saveMatrixState rejects after the batch of the record landed.
CreateTriadSaveFails(i) ==
  /\ At(i, "createTriad", "putmeta")
  /\ ret' = Rejected("createTriad", "WriteFailed")
  /\ calls' = Without(calls, i)
  /\ UNCHANGED << invoked, network, client >>
  /\ UNCHANGED << config, mirror, validators, isInitialized, db, emitted, evaluated >>

----------------------------------------------------------------------------
\* validateTriad(triadId, validatorId)

\* The ids a caller names: those of the mirror and of the store.
TriadIdInputs == DOMAIN triads \cup DOMAIN dbTriads

ValidateTriadNotInitialized(triadId, validatorId) ==
  /\ CanInvoke
  /\ ~validateInitialization
  /\ ret' = Rejected("validateTriad", "NotInitialized")
  /\ UNCHANGED << invoked, network, client >>
  /\ UNCHANGED << config, mirror, validators, isInitialized, db, calls, emitted, evaluated >>

\* getTriadById issues db.get('triad:<id>').
ValidateTriad(triadId, validatorId) ==
  /\ CanInvoke
  /\ validateInitialization
  /\ calls' = Append(calls, [Idle EXCEPT !.op = "validateTriad", !.pc = "get",
                                         !.triadId = triadId,
                                         !.validatorId = validatorId])
  /\ invoked' = invoked + 1
  /\ UNCHANGED << network, client >>
  /\ UNCHANGED << config, mirror, validators, isInitialized, db, emitted, ret, evaluated >>

\* The read is answered with the record stored at that moment, or not found.
ValidateTriadGetLands(i) ==
  /\ At(i, "validateTriad", "get")
  /\ calls' = [calls EXCEPT ![i].pc = "got",
                            ![i].triad = IF calls[i].triadId \in DOMAIN dbTriads
                                         THEN dbTriads[calls[i].triadId] ELSE NoTriad]
  /\ UNCHANGED << invoked, network, client >>
  /\ UNCHANGED << config, mirror, validators, isInitialized, db, emitted, ret, evaluated >>

ValidateTriadRejected(i) ==
  /\ At(i, "validateTriad", "got")
  /\ calls[i].triad = NoTriad \/ ~validateValidator(calls[i].validatorId)
  /\ ret' = Rejected("validateTriad", IF calls[i].triad = NoTriad THEN "NotFound" ELSE "InvalidInput")
  /\ calls' = Without(calls, i)
  /\ UNCHANGED << invoked, network, client >>
  /\ UNCHANGED << config, mirror, validators, isInitialized, db, emitted, evaluated >>

\* if (triad.validated) return triad
ValidateTriadAlready(i) ==
  /\ At(i, "validateTriad", "got")
  /\ calls[i].triad /= NoTriad
  /\ validateValidator(calls[i].validatorId)
  /\ TriadValidated(calls[i].triad)
  /\ ret' = Resolved("validateTriad", calls[i].triad)
  /\ calls' = Without(calls, i)
  /\ UNCHANGED << invoked, network, client >>
  /\ UNCHANGED << config, mirror, validators, isInitialized, db, emitted, evaluated >>

\* The score is computed, the record read is updated and its batch issued.
ValidateTriadEvaluate(i) ==
  /\ At(i, "validateTriad", "got")
  /\ calls[i].triad /= NoTriad
  /\ validateValidator(calls[i].validatorId)
  /\ ~TriadValidated(calls[i].triad)
  /\ LET consensusScore == calculateConsensus(calls[i].triad, calls[i].validatorId)
     IN calls' = [calls EXCEPT ![i].pc = "put",
                               ![i].triad = ValidatedRecord(calls[i].triad, consensusScore)]
  /\ evaluated' = Put(evaluated, calls[i].triadId,
                      [ calls |-> Evaluated(calls[i].triadId).calls + 1,
                        registered |-> Evaluated(calls[i].triadId).registered
                                       + IF calls[i].validatorId \in validators THEN 1 ELSE 0 ])
  /\ UNCHANGED << invoked, network, client >>
  /\ UNCHANGED << config, mirror, validators, isInitialized, db, emitted, ret >>

ValidateTriadPutLands(i) ==
  /\ At(i, "validateTriad", "put")
  /\ dbTriads' = Put(dbTriads, calls[i].triadId, calls[i].triad)
  /\ calls' = [calls EXCEPT ![i].pc = "wrote"]
  /\ UNCHANGED << invoked, network, client >>
  /\ UNCHANGED << config, mirror, validators, isInitialized, dbMeta, emitted, ret, evaluated >>

\* emit('triadValidated', triad); return triad
ValidateTriadAck(i) ==
  /\ At(i, "validateTriad", "wrote")
  /\ emitted' = Emit("triadValidated", calls[i].triad)
  /\ ret' = Resolved("validateTriad", calls[i].triad)
  /\ calls' = Without(calls, i)
  /\ UNCHANGED << invoked, network, client >>
  /\ UNCHANGED << config, mirror, validators, isInitialized, db, evaluated >>

----------------------------------------------------------------------------

Next ==
  \/ \E i \in 1..Len(calls) : InitGetLands(i)
  \/ \E i \in 1..Len(calls) : InitLoaded(i)
  \/ \E i \in 1..Len(calls) : InitNotFound(i)
  \/ \E i \in 1..Len(calls) : InitScan(i)
  \/ \E i \in 1..Len(calls) : InitScanDone(i)
  \/ \E i \in 1..Len(calls) : InitSaveLands(i)
  \/ \E i \in 1..Len(calls) : InitSaved(i)
  \/ \E i \in 1..Len(calls) : AddValidatorSaveLands(i)
  \/ \E i \in 1..Len(calls) : CreateTriadPutLands(i)
  \/ \E i \in 1..Len(calls) : CreateTriadSave(i)
  \/ \E i \in 1..Len(calls) : CreateTriadSaveLands(i)
  \/ \E i \in 1..Len(calls) : CreateTriadAck(i)
  \/ \E i \in 1..Len(calls) : ValidateTriadGetLands(i)
  \/ \E i \in 1..Len(calls) : ValidateTriadRejected(i)
  \/ \E i \in 1..Len(calls) : ValidateTriadAlready(i)
  \/ \E i \in 1..Len(calls) : ValidateTriadEvaluate(i)
  \/ \E i \in 1..Len(calls) : ValidateTriadPutLands(i)
  \/ \E i \in 1..Len(calls) : ValidateTriadAck(i)
  \/ \E validatorId \in ValidatorInputs : AddValidatorInvalid(validatorId)
  \/ \E validatorId \in ValidatorInputs : AddValidatorKnown(validatorId)
  \/ \E validatorId \in ValidatorInputs : AddValidatorNew(validatorId)
  \/ \E data \in DataInputs, validator \in CreatorInputs : CreateTriadRejected(data, validator)
  \/ \E data \in DataInputs, validator \in CreatorInputs, position \in PositionInputs :
        CreateTriad(data, validator, position)
  \/ \E triadId \in TriadIdInputs, validatorId \in ValidatorInputs :
        ValidateTriadNotInitialized(triadId, validatorId)
  \/ \E triadId \in TriadIdInputs, validatorId \in ValidatorInputs :
        ValidateTriad(triadId, validatorId)

Spec == Init /\ [][Next]_vars

----------------------------------------------------------------------------
\* getTriadById(triadId), called on its own, and the store under reads

\* The empty string as a triad id.
EmptyId == NoTriad.id

\* The ids a reader names: those of the mirror and of the store, one that no
\* triad has, and the empty one.
ReadIdInputs == TriadIdInputs \cup {generateTriadId, EmptyId}

\* validateInitialization or the check of the id throws.
GetTriadByIdRejected(triadId) ==
  /\ CanInvoke
  /\ ~validateInitialization \/ triadId = EmptyId
  /\ ret' = Rejected("getTriadById",
                     IF ~validateInitialization THEN "NotInitialized" ELSE "InvalidId")
  /\ UNCHANGED << invoked, network, client >>
  /\ UNCHANGED << config, mirror, validators, isInitialized, db, calls, emitted, evaluated >>

\* db.get('triad:<id>') is issued.
GetTriadById(triadId) ==
  /\ CanInvoke
  /\ validateInitialization
  /\ triadId /= EmptyId
  /\ calls' = Append(calls, [Idle EXCEPT !.op = "getTriadById", !.pc = "get",
                                         !.triadId = triadId])
  /\ invoked' = invoked + 1
  /\ UNCHANGED << network, client >>
  /\ UNCHANGED << config, mirror, validators, isInitialized, db, emitted, ret, evaluated >>

GetTriadByIdGetLands(i) ==
  /\ At(i, "getTriadById", "get")
  /\ calls' = [calls EXCEPT ![i].pc = "got",
                            ![i].triad = IF calls[i].triadId \in DOMAIN dbTriads
                                         THEN dbTriads[calls[i].triadId] ELSE NoTriad]
  /\ UNCHANGED << invoked, network, client >>
  /\ UNCHANGED << config, mirror, validators, isInitialized, db, emitted, ret, evaluated >>

GetTriadByIdFound(i) ==
  /\ At(i, "getTriadById", "got")
  /\ calls[i].triad /= NoTriad
  /\ ret' = Resolved("getTriadById", calls[i].triad)
  /\ calls' = Without(calls, i)
  /\ UNCHANGED << invoked, network, client >>
  /\ UNCHANGED << config, mirror, validators, isInitialized, db, emitted, evaluated >>

GetTriadByIdNotFound(i) ==
  /\ At(i, "getTriadById", "got")
  /\ calls[i].triad = NoTriad
  /\ ret' = Rejected("getTriadById", "NotFound")
  /\ calls' = Without(calls, i)
  /\ UNCHANGED << invoked, network, client >>
  /\ UNCHANGED << config, mirror, validators, isInitialized, db, emitted, evaluated >>

\* The store with createTriad, validateTriad and getTriadById as its callers;
\* of the calls rejected before their first await, those of getTriadById.
ReadNext ==
  \/ \E i \in 1..Len(calls) : InitGetLands(i)
  \/ \E i \in 1..Len(calls) : InitLoaded(i)
  \/ \E i \in 1..Len(calls) : InitNotFound(i)
  \/ \E i \in 1..Len(calls) : InitScan(i)
  \/ \E i \in 1..Len(calls) : InitScanDone(i)
  \/ \E i \in 1..Len(calls) : InitSaveLands(i)
  \/ \E i \in 1..Len(calls) : InitSaved(i)
  \/ \E i \in 1..Len(calls) : CreateTriadPutLands(i)
  \/ \E i \in 1..Len(calls) : CreateTriadSave(i)
  \/ \E i \in 1..Len(calls) : CreateTriadSaveLands(i)
  \/ \E i \in 1..Len(calls) : CreateTriadAck(i)
  \/ \E i \in 1..Len(calls) : ValidateTriadGetLands(i)
  \/ \E i \in 1..Len(calls) : ValidateTriadRejected(i)
  \/ \E i \in 1..Len(calls) : ValidateTriadAlready(i)
  \/ \E i \in 1..Len(calls) : ValidateTriadEvaluate(i)
  \/ \E i \in 1..Len(calls) : ValidateTriadPutLands(i)
  \/ \E i \in 1..Len(calls) : ValidateTriadAck(i)
  \/ \E i \in 1..Len(calls) : GetTriadByIdGetLands(i)
  \/ \E i \in 1..Len(calls) : GetTriadByIdFound(i)
  \/ \E i \in 1..Len(calls) : GetTriadByIdNotFound(i)
  \/ \E data \in DataInputs, validator \in CreatorInputs, position \in PositionInputs :
        CreateTriad(data, validator, position)
  \/ \E triadId \in ReadIdInputs \ {EmptyId}, validatorId \in ValidatorInputs :
        ValidateTriad(triadId, validatorId)
  \/ \E triadId \in ReadIdInputs : GetTriadByIdRejected(triadId)
  \/ \E triadId \in ReadIdInputs : GetTriadById(triadId)

ReadSpec == Init /\ [][ReadNext]_vars

----------------------------------------------------------------------------
\* The P2P node: its peer map and its WebSocket objects

\* this.maxPeers, from MAX_PEERS of the environment.
MaxPeers == 3
\* The WebSocket objects made in one run of the node, inbound and outbound.
MaxSockets == 4

\* The addresses connectToPeer is called with.
PeerAddresses == {"ws://a", "ws://b"}
\* url = null, the url of an inbound peer's entry.
NoUrl == "null"
\* originatorPeerId = null, and the undefined findPeerIdByWs answers for a
\* socket no peer has.
NoPeerId == 0
\* getPublicAddress(): P2P_ADVERTISED_ADDRESS, or ws://localhost:<port>.
getPublicAddress == "ws://self"

\* A WebSocket object: who opened it, the address it was made for, its
\* readyState, whether the node's handlers are registered on it, the
\* envelopes sent on it, and the error code ws.send() throws with, if it
\* throws.  A socket is named by its index in sockets; the peer id made
\* for it (uuidv4(), 'outgoing-' + uuidv4()) is that index too.
WebSocket(direction, url, readyState, listeners) ==
  [ direction |-> direction, url |-> url, readyState |-> readyState,
    listeners |-> listeners, sent |-> << >>, broken |-> "no" ]

\* An envelope { type, payload }: the payload is a triad, a text (the
\* message of an ERROR, the status of a confirmation), a list of addresses
\* or a ledger batch, according to the type.
Message(type) ==
  [ type |-> type, triad |-> NoTriad, text |-> "", addresses |-> {}, ledgerData |-> 0 ]

\* this.peers.size
PeersSize == Cardinality(DOMAIN peers)

\* this.peers.set(peerId, { ws, id, direction, url })
addPeer(ps, ws, peerId, direction, url) ==
  Put(ps, peerId, [ws |-> ws, direction |-> direction, url |-> url])

\* The entry is kept.
MutPeersWithout_Kept(ps, peerId) == ps

\* this.peers.delete(peerId)
PeersWithout(ps, peerId) == [id \in DOMAIN ps \ {peerId} |-> ps[id]]

\* isConnectedTo(peerAddress): some peer of the map has that url.
isConnectedTo(peerAddress) == \E id \in DOMAIN peers : peers[id].url = peerAddress

\* findPeerIdByWs(ws) || tempId: the id ws is registered under, else tempId.
findPeerIdByWs(ps, ws, tempId) ==
  IF \E id \in DOMAIN ps : ps[id].ws = ws
  THEN CHOOSE id \in DOMAIN ps : ps[id].ws = ws
  ELSE tempId

\* ws.terminate(): the connection is destroyed, its 'close' event follows.
terminate(socks, ws) ==
  IF socks[ws].readyState \in {"CONNECTING", "OPEN"}
  THEN [socks EXCEPT ![ws].readyState = "CLOSING"]
  ELSE socks

\* removePeer(peerId): the map and the sockets it leaves.
removePeer(ps, socks, peerId) ==
  IF peerId \in DOMAIN ps
  THEN [ peers |-> PeersWithout(ps, peerId), sockets |-> terminate(socks, ps[peerId].ws) ]
  ELSE [ peers |-> ps, sockets |-> socks ]

\* sendMessage(ws, message): sent only on an open socket.  A send that throws
\* is caught; if it threw with EPIPE or ECONNRESET the peer of the socket is
\* removed.
sendMessage(ps, socks, ws, message) ==
  IF socks[ws].readyState /= "OPEN" THEN [ peers |-> ps, sockets |-> socks ]
  ELSE IF socks[ws].broken = "no"
  THEN [ peers |-> ps, sockets |-> [socks EXCEPT ![ws].sent = Append(@, message)] ]
  ELSE IF socks[ws].broken \in {"EPIPE", "ECONNRESET"}
  THEN removePeer(ps, socks, findPeerIdByWs(ps, ws, NoPeerId))
  ELSE [ peers |-> ps, sockets |-> socks ]

\* sendHandshake(ws): a HANDSHAKE envelope to the new peer.
sendHandshake(ps, socks, ws) == sendMessage(ps, socks, ws, Message("HANDSHAKE"))

\* this.peers.forEach(...) of broadcast over the entries ids, in insertion
\* order: an entry removed before its turn is not visited.
RECURSIVE BroadcastTo(_, _, _, _, _)
BroadcastTo(ids, ps, socks, message, originatorPeerId) ==
  IF ids = << >> THEN [ peers |-> ps, sockets |-> socks ]
  ELSE LET peerId == Head(ids)
           next == IF peerId /= originatorPeerId /\ peerId \in DOMAIN ps
                   THEN sendMessage(ps, socks, ps[peerId].ws, message)
                   ELSE [ peers |-> ps, sockets |-> socks ]
       IN BroadcastTo(Tail(ids), next.peers, next.sockets, message, originatorPeerId)

\* The originator is sent the envelope too.
MutBroadcast_IncludesOriginator(ps, socks, message, originatorPeerId) ==
  BroadcastTo(KeyOrder(DOMAIN ps), ps, socks, message, NoPeerId)

\* broadcast(message, originatorPeerId): sendMessage to the socket of every
\* peer of the map but the originator.
broadcast(ps, socks, message, originatorPeerId) ==
  BroadcastTo(KeyOrder(DOMAIN ps), ps, socks, message, originatorPeerId)

\* The DISCOVERY envelope of a node short of peers: its id and address.
DiscoveryRequest == [Message("DISCOVERY") EXCEPT !.addresses = {getPublicAddress}]

\* handlePeerDisconnection(peerId, peerIp): a peer that is not in the map
\* makes it throw into its own catch; otherwise the peer is removed and, with
\* fewer than maxPeers / 2 peers left, DISCOVERY is broadcast.
handlePeerDisconnection(ps, socks, peerId) ==
  IF peerId \notin DOMAIN ps
  THEN [ peers |-> ps, sockets |-> socks ]
  ELSE LET left == PeersWithout(ps, peerId)
           closed == terminate(socks, ps[peerId].ws)
       IN IF 2 * Cardinality(DOMAIN left) < MaxPeers
          THEN broadcast(left, closed, DiscoveryRequest, NoPeerId)
          ELSE [ peers |-> left, sockets |-> closed ]

\* The node as its constructor leaves it, started on its own (no initial
\* peers, an event emitter in place of the store).
NodeInit ==
  /\ dimensions = DEFAULT_DIMENSIONS
  /\ complexity = DEFAULT_COMPLEXITY
  /\ consensusThreshold = DEFAULT_CONSENSUS_THRESHOLD
  /\ matrix = << >>
  /\ triads = NoTriads
  /\ validators = {}
  /\ isInitialized = FALSE
  /\ dbTriads = NoTriads
  /\ dbMeta = NoMeta
  /\ calls = << >>
  /\ invoked = 0
  /\ emitted = [count |-> 0, event |-> "none", triad |-> NoTriad]
  /\ ret = NoReturn
  /\ evaluated = [id \in {} |-> [calls |-> 0, registered |-> 0]]
  /\ peers = NoPeers
  /\ sockets = << >>
  /\ fault = FALSE
  /\ ledger = NoLedger
  /\ handled = << >>
  /\ shutdown = NotClosing
  /\ miner = initializeState
  /\ tokenomics = NoTokenomics
  /\ remote = NoRemote

\* The server's 'connection' event with the map full: ws.terminate().
HandleNewConnectionRefused ==
  /\ Len(sockets) < MaxSockets
  /\ PeersSize >= MaxPeers
  /\ sockets' = Append(sockets, WebSocket("incoming", NoUrl, "CLOSING", FALSE))
  /\ UNCHANGED << peers, fault >>
  /\ UNCHANGED << matrixVars, client, service >>

\* The server's 'connection' event: the peer is added, greeted, and the
\* handlers of its socket are registered.
HandleNewConnection ==
  /\ Len(sockets) < MaxSockets
  /\ PeersSize < MaxPeers
  /\ LET ws == Len(sockets) + 1
         made == Append(sockets, WebSocket("incoming", NoUrl, "OPEN", TRUE))
         greeted == sendHandshake(addPeer(peers, ws, ws, "incoming", NoUrl), made, ws)
     IN peers' = greeted.peers /\ sockets' = greeted.sockets
  /\ UNCHANGED fault
  /\ UNCHANGED << matrixVars, client, service >>

\* connectToPeer(peerAddress) past its two checks: the socket is made and
\* its handlers are registered.  A refused call changes nothing.
ConnectToPeer(peerAddress) ==
  /\ Len(sockets) < MaxSockets
  /\ PeersSize < MaxPeers
  /\ ~isConnectedTo(peerAddress)
  /\ sockets' = Append(sockets, WebSocket("outgoing", peerAddress, "CONNECTING", TRUE))
  /\ UNCHANGED << peers, fault >>
  /\ UNCHANGED << matrixVars, client, service >>

\* 'open' on an outbound socket: the peer is added under its temporary id,
\* greeted, and asked for its peers.
SocketOpen(ws) ==
  /\ ws \in DOMAIN sockets
  /\ sockets[ws].direction = "outgoing"
  /\ sockets[ws].readyState = "CONNECTING"
  /\ LET open == [sockets EXCEPT ![ws].readyState = "OPEN"]
         greeted == sendHandshake(addPeer(peers, ws, ws, "outgoing", sockets[ws].url), open, ws)
         asked == sendMessage(greeted.peers, greeted.sockets, ws, Message("DISCOVERY"))
     IN peers' = asked.peers /\ sockets' = asked.sockets
  /\ UNCHANGED fault
  /\ UNCHANGED << matrixVars, client, service >>

\* 'error' on an inbound socket (its 'close' follows): handlePeerError logs.
\* Without an 'error' listener the event would be thrown.
SocketErrorIncoming(ws) ==
  /\ ws \in DOMAIN sockets
  /\ sockets[ws].direction = "incoming"
  /\ sockets[ws].readyState = "OPEN"
  /\ sockets' = [sockets EXCEPT ![ws].readyState = "CLOSING"]
  /\ fault' = (fault \/ ~sockets[ws].listeners)
  /\ UNCHANGED peers
  /\ UNCHANGED << matrixVars, client, service >>

\* 'error' on an outbound socket, connecting or open (its 'close' follows).
SocketErrorOutgoing(ws) ==
  /\ ws \in DOMAIN sockets
  /\ sockets[ws].direction = "outgoing"
  /\ sockets[ws].readyState \in {"CONNECTING", "OPEN"}
  /\ LET failed == [sockets EXCEPT ![ws].readyState = "CLOSING"]
         left == removePeer(peers, failed, findPeerIdByWs(peers, ws, ws))
     IN peers' = left.peers /\ sockets' = left.sockets
  /\ UNCHANGED fault
  /\ UNCHANGED << matrixVars, client, service >>

\* 'close' on an inbound socket.  A refused socket has no handler.
SocketCloseIncoming(ws) ==
  /\ ws \in DOMAIN sockets
  /\ sockets[ws].direction = "incoming"
  /\ sockets[ws].readyState \in {"OPEN", "CLOSING"}
  /\ LET closed == [sockets EXCEPT ![ws].readyState = "CLOSED"]
         left == IF sockets[ws].listeners
                 THEN handlePeerDisconnection(peers, closed, ws)
                 ELSE [ peers |-> peers, sockets |-> closed ]
     IN peers' = left.peers /\ sockets' = left.sockets
  /\ UNCHANGED fault
  /\ UNCHANGED << matrixVars, client, service >>

\* 'close' on an outbound socket.
SocketCloseOutgoing(ws) ==
  /\ ws \in DOMAIN sockets
  /\ sockets[ws].direction = "outgoing"
  /\ sockets[ws].readyState \in {"OPEN", "CLOSING"}
  /\ LET closed == [sockets EXCEPT ![ws].readyState = "CLOSED"]
         left == removePeer(peers, closed, findPeerIdByWs(peers, ws, ws))
     IN peers' = left.peers /\ sockets' = left.sockets
  /\ UNCHANGED fault
  /\ UNCHANGED << matrixVars, client, service >>

NodeNext ==
  \/ HandleNewConnectionRefused
  \/ HandleNewConnection
  \/ \E peerAddress \in PeerAddresses : ConnectToPeer(peerAddress)
  \/ \E ws \in DOMAIN sockets : SocketOpen(ws)
  \/ \E ws \in DOMAIN sockets : SocketErrorIncoming(ws)
  \/ \E ws \in DOMAIN sockets : SocketErrorOutgoing(ws)
  \/ \E ws \in DOMAIN sockets : SocketCloseIncoming(ws)
  \/ \E ws \in DOMAIN sockets : SocketCloseOutgoing(ws)

NodeSpec == NodeInit /\ [][NodeNext]_vars

----------------------------------------------------------------------------
\* broadcast(message, originatorPeerId) called on a node whose peers'
\* connections are open, closing, or throw when written to.

\* The sockets of one run of a node that handles messages.
MaxLinks == 3
\* The messages the node receives and the broadcasts asked of it in one run.
MaxMessages == 2

\* The envelope a caller hands to broadcast.
BroadcastInputs == { Message("STATUS_UPDATE") }
\* The error codes ws.send() throws with: a lost connection, and another.
SendErrorCodes == {"EPIPE", "ERR_OTHER"}

\* The connection of ws is lost and the node has not been told: from now on
\* ws.send() throws.
SendBreaks(ws, code) ==
  /\ ws \in DOMAIN sockets
  /\ sockets[ws].readyState = "OPEN"
  /\ sockets[ws].broken = "no"
  /\ sockets' = [sockets EXCEPT ![ws].broken = code]
  /\ UNCHANGED << peers, fault >>
  /\ UNCHANGED << matrixVars, client, service >>

\* What the node was handed: a raw message on socket ws, or an envelope to
\* broadcast, on no socket.
Handled(ws, kind, message) == [ ws |-> ws, kind |-> kind, message |-> message ]

\* broadcast(message, originatorPeerId), called by a user of the node.
Broadcast(message, originatorPeerId) ==
  /\ Len(handled) < MaxMessages
  /\ originatorPeerId \in DOMAIN peers \cup {NoPeerId}
  /\ LET sent == broadcast(peers, sockets, message, originatorPeerId)
     IN peers' = sent.peers /\ sockets' = sent.sockets
  /\ handled' = Append(handled, Handled(NoPeerId, "broadcast", message))
  /\ UNCHANGED << fault, ledger, shutdown >>
  /\ UNCHANGED << matrixVars, client, remote >>

BroadcastNext ==
  \/ Len(sockets) < MaxLinks /\ HandleNewConnection
  \/ \E ws \in DOMAIN sockets : SocketErrorIncoming(ws)
  \/ \E ws \in DOMAIN sockets, code \in SendErrorCodes : SendBreaks(ws, code)
  \/ \E message \in BroadcastInputs, originatorPeerId \in DOMAIN peers \cup {NoPeerId} :
        Broadcast(message, originatorPeerId)

BroadcastSpec == NodeInit /\ [][BroadcastNext]_vars

----------------------------------------------------------------------------
\* handleMessage(ws, messageBuffer, peerId) on a node attached to a loaded
\* store and, or not, to a ledger collaborator.

\* MESSAGE_TYPES
MESSAGE_TYPES ==
  { "HANDSHAKE", "DISCOVERY", "PEERS", "NEW_TRIAD", "VALIDATE_TRIAD",
    "TRIAD_VALIDATED_CONFIRMATION", "GET_STATUS", "STATUS_UPDATE", "ERROR",
    "SYNC_LEDGER", "SYNC_LEDGER_CONFIRMATION" }

\* The triad the local store holds when the node is made, and the triads
\* peers announce: one under the id of the local triad, one under a new id.
LocalTriad == PriorTriad(1, <<0, 0, 0>>, FALSE, 0, 0)
RemoteTriad(id) ==
  [PriorTriad(id, <<1, 0, 0>>, FALSE, 0, 0) EXCEPT !.data = "remote", !.validator = "v2"]
NewTriadInputs == { RemoteTriad(1), RemoteTriad(2) }

\* message.payload.ledgerData of a SYNC_LEDGER: two batches, by their numbers.
LedgerDataInputs == { 1, 2 }

\* The envelopes peers send: a triad announcement, a ledger batch, and a type
\* the protocol does not have.
MessageInputs ==
  { [Message("NEW_TRIAD") EXCEPT !.triad = t] : t \in NewTriadInputs }
    \cup { [Message("SYNC_LEDGER") EXCEPT !.ledgerData = d] : d \in LedgerDataInputs }
    \cup { Message("PING") }

\* The buffers that arrive: the JSON text of an envelope, the JSON text
\* null, and bytes that are no JSON text.
RawKinds == { "json", "null", "garbage" }

\* JSON.parse(messageBuffer.toString()) followed by message.type: throws for
\* bytes that are no JSON and for the value null.
Parses(kind) == kind = "json"

\* The ERROR envelope with its message.
ErrorMessage(text) == [Message("ERROR") EXCEPT !.text = text]
\* `Unknown message type: ${message.type}`: the message names the type.
UnknownType(type) == type

\* One call of the collaborator, as a mock records it.
LedgerCall(fn, result, ledgerData) == [ fn |-> fn, result |-> result, ledgerData |-> ledgerData ]

\* The settlement of one awaited updateLedger, for the request of ws: resolved
\* (the message is empty) or rejected with an Error of the message.
LedgerResult(ws, message) == [ ws |-> ws, message |-> message ]

\* The node made over a store that has loaded one triad, with a ledger
\* collaborator or with none.
MessageInit ==
  \E dbConnection \in BOOLEAN :
    /\ dimensions = DEFAULT_DIMENSIONS
    /\ complexity = DEFAULT_COMPLEXITY
    /\ consensusThreshold = DEFAULT_CONSENSUS_THRESHOLD
    /\ matrix = << LocalTriad >>
    /\ triads = Put(NoTriads, LocalTriad.id, LocalTriad)
    /\ validators = {"v1"}
    /\ isInitialized = TRUE
    /\ dbTriads = Put(NoTriads, LocalTriad.id, LocalTriad)
    /\ dbMeta = PriorMeta(DefaultOptions, 1)
    /\ calls = << >>
    /\ invoked = 1
    /\ emitted = [count |-> 1, event |-> "initialized", triad |-> NoTriad]
    /\ ret = NoReturn
    /\ evaluated = [ id \in {LocalTriad.id} |-> [calls |-> 0, registered |-> 0] ]
    /\ peers = NoPeers
    /\ sockets = << >>
    /\ fault = FALSE
    /\ ledger = [NoLedger EXCEPT !.dbConnection = dbConnection]
    /\ handled = << >>
    /\ shutdown = NotClosing
    /\ miner = initializeState
    /\ tokenomics = NoTokenomics
    /\ remote = NoRemote

\* A 'message' event on ws: the socket is open and has the node's handler.
Receives(ws) ==
  /\ ws \in DOMAIN sockets
  /\ sockets[ws].listeners
  /\ sockets[ws].readyState = "OPEN"
  /\ Len(handled) < MaxMessages

\* this.peers.get(peerId) of handleMessage finds the sender: peerId is the id
\* the socket's handler was registered with.
SenderKnown(ws) == findPeerIdByWs(peers, ws, ws) \in DOMAIN peers

\* The catch of handleMessage: the buffer is no JSON, or it is null and the
\* sender is known: the answer is ERROR 'Invalid message format'.
HandleMessageInvalid(ws, kind) ==
  /\ Receives(ws)
  /\ ~Parses(kind)
  /\ kind = "null" => SenderKnown(ws)
  /\ LET answered == sendMessage(peers, sockets, ws, ErrorMessage("Invalid message format"))
     IN peers' = answered.peers /\ sockets' = answered.sockets
  /\ handled' = Append(handled, Handled(ws, kind, Message("")))
  /\ UNCHANGED << fault, ledger, shutdown >>
  /\ UNCHANGED << matrixVars, client, remote >>

\* The ERROR envelope of the default case says 'Invalid message format'.
MutHandleMessageUnknown_Unnamed(ws, message) ==
  /\ Receives(ws)
  /\ SenderKnown(ws)
  /\ message.type \notin MESSAGE_TYPES
  /\ LET answered == sendMessage(peers, sockets, ws, ErrorMessage("Invalid message format"))
     IN peers' = answered.peers /\ sockets' = answered.sockets
  /\ handled' = Append(handled, Handled(ws, "json", message))
  /\ UNCHANGED << fault, ledger, shutdown >>
  /\ UNCHANGED << matrixVars, client, remote >>

\* default: the answer is ERROR 'Unknown message type: <type>'.
HandleMessageUnknown(ws, message) ==
  /\ Receives(ws)
  /\ SenderKnown(ws)
  /\ message.type \notin MESSAGE_TYPES
  /\ LET answered == sendMessage(peers, sockets, ws, ErrorMessage(UnknownType(message.type)))
     IN peers' = answered.peers /\ sockets' = answered.sockets
  /\ handled' = Append(handled, Handled(ws, "json", message))
  /\ UNCHANGED << fault, ledger, shutdown >>
  /\ UNCHANGED << matrixVars, client, remote >>

\* The list holds the urls of the peers only.
MutGetPeerAddresses_PeersOnly(ps) ==
  { ps[id].url : id \in { p \in DOMAIN ps : ps[p].url /= NoUrl } }

\* getPeerAddresses(): the node's own address and the urls of its peers.
getPeerAddresses(ps) ==
  {getPublicAddress} \cup { ps[id].url : id \in { p \in DOMAIN ps : ps[p].url /= NoUrl } }

\* The payload replaces the local record of its id.
MutHandleNewTriad_RemoteWins(ws, message) ==
  /\ Receives(ws)
  /\ SenderKnown(ws)
  /\ message.type = "NEW_TRIAD"
  /\ dbTriads' = Put(dbTriads, message.triad.id, message.triad)
  /\ triads' = Put(triads, message.triad.id, message.triad)
  /\ matrix' = Append(matrix, message.triad)
  /\ handled' = Append(handled, Handled(ws, "json", message))
  /\ UNCHANGED << config, validators, isInitialized, dbMeta, calls, invoked, emitted, ret,
                  evaluated >>
  /\ UNCHANGED << peers, sockets, fault, ledger, shutdown, client, remote >>

\* case NEW_TRIAD, handleNewTriad(message, peerId): the payload is inserted
\* into the store and its mirror under its id, unless the id is present.
HandleNewTriad(ws, message) ==
  /\ Receives(ws)
  /\ SenderKnown(ws)
  /\ message.type = "NEW_TRIAD"
  /\ IF message.triad.id \in DOMAIN dbTriads \cup DOMAIN triads
     THEN UNCHANGED << dbTriads, triads, matrix >>
     ELSE /\ dbTriads' = Put(dbTriads, message.triad.id, message.triad)
          /\ triads' = Put(triads, message.triad.id, message.triad)
          /\ matrix' = Append(matrix, message.triad)
  /\ handled' = Append(handled, Handled(ws, "json", message))
  /\ UNCHANGED << config, validators, isInitialized, dbMeta, calls, invoked, emitted, ret,
                  evaluated >>
  /\ UNCHANGED << peers, sockets, fault, ledger, shutdown, client, remote >>

\* The request is dropped without an answer when no collaborator is configured.
MutHandleSyncLedgerUnavailable_Silent(ws, message) ==
  /\ Receives(ws)
  /\ SenderKnown(ws)
  /\ message.type = "SYNC_LEDGER"
  /\ ~ledger.dbConnection
  /\ handled' = Append(handled, Handled(ws, "json", message))
  /\ UNCHANGED << peers, sockets, fault, ledger, shutdown >>
  /\ UNCHANGED << matrixVars, client, remote >>

\* case SYNC_LEDGER with this.dbConnection null.
HandleSyncLedgerUnavailable(ws, message) ==
  /\ Receives(ws)
  /\ SenderKnown(ws)
  /\ message.type = "SYNC_LEDGER"
  /\ ~ledger.dbConnection
  /\ LET answered == sendMessage(peers, sockets, ws,
                       ErrorMessage("Database connection not available for ledger sync"))
     IN peers' = answered.peers /\ sockets' = answered.sockets
  /\ handled' = Append(handled, Handled(ws, "json", message))
  /\ UNCHANGED << fault, ledger, shutdown >>
  /\ UNCHANGED << matrixVars, client, remote >>

\* The batch is handed to updateLedger although the collaborator is closed.
MutHandleSyncLedgerRefused_Updates(ws, message) ==
  /\ Receives(ws)
  /\ SenderKnown(ws)
  /\ message.type = "SYNC_LEDGER"
  /\ ledger.dbConnection
  /\ ledger' = [ledger EXCEPT
       !.calls = ledger.calls \o << LedgerCall("isOpenForNewUsers", FALSE, 0),
                                    LedgerCall("updateLedger", TRUE, message.ledgerData) >>]
  /\ LET answered == sendMessage(peers, sockets, ws,
                                 ErrorMessage("Database is not open for new users"))
     IN peers' = answered.peers /\ sockets' = answered.sockets
  /\ handled' = Append(handled, Handled(ws, "json", message))
  /\ UNCHANGED << fault, shutdown >>
  /\ UNCHANGED << matrixVars, client, remote >>

\* case SYNC_LEDGER, isOpenForNewUsers() answers false: syncLedger throws and
\* the catch answers ERROR with its message.
HandleSyncLedgerRefused(ws, message) ==
  /\ Receives(ws)
  /\ SenderKnown(ws)
  /\ message.type = "SYNC_LEDGER"
  /\ ledger.dbConnection
  /\ ledger' = [ledger EXCEPT
       !.calls = Append(ledger.calls, LedgerCall("isOpenForNewUsers", FALSE, 0))]
  /\ LET answered == sendMessage(peers, sockets, ws,
                                 ErrorMessage("Database is not open for new users"))
     IN peers' = answered.peers /\ sockets' = answered.sockets
  /\ handled' = Append(handled, Handled(ws, "json", message))
  /\ UNCHANGED << fault, shutdown >>
  /\ UNCHANGED << matrixVars, client, remote >>

\* case SYNC_LEDGER, isOpenForNewUsers() answers true: updateLedger is called
\* with the batch and awaited.
HandleSyncLedger(ws, message) ==
  /\ Receives(ws)
  /\ SenderKnown(ws)
  /\ message.type = "SYNC_LEDGER"
  /\ ledger.dbConnection
  /\ ledger' = [ledger EXCEPT
       !.calls = ledger.calls \o << LedgerCall("isOpenForNewUsers", TRUE, 0),
                                    LedgerCall("updateLedger", TRUE, message.ledgerData) >>,
       !.syncs = Append(ledger.syncs, [ws |-> ws, ledgerData |-> message.ledgerData])]
  /\ handled' = Append(handled, Handled(ws, "json", message))
  /\ UNCHANGED << peers, sockets, fault, shutdown >>
  /\ UNCHANGED << matrixVars, client, remote >>

\* The confirmation is sent with status failure.
MutSyncLedgerUpdated_Failure(k) ==
  /\ k \in DOMAIN ledger.syncs
  /\ LET answered == sendMessage(peers, sockets, ledger.syncs[k].ws,
                       [Message("SYNC_LEDGER_CONFIRMATION") EXCEPT !.text = "failure"])
     IN peers' = answered.peers /\ sockets' = answered.sockets
  /\ ledger' = [ledger EXCEPT
       !.syncs = Without(ledger.syncs, k),
       !.results = Append(ledger.results, LedgerResult(ledger.syncs[k].ws, ""))]
  /\ UNCHANGED << fault, handled, shutdown >>
  /\ UNCHANGED << matrixVars, client, remote >>

\* updateLedger resolves: syncLedger returns { status: 'success' } and the
\* requester is sent SYNC_LEDGER_CONFIRMATION.
SyncLedgerUpdated(k) ==
  /\ k \in DOMAIN ledger.syncs
  /\ LET answered == sendMessage(peers, sockets, ledger.syncs[k].ws,
                       [Message("SYNC_LEDGER_CONFIRMATION") EXCEPT !.text = "success"])
     IN peers' = answered.peers /\ sockets' = answered.sockets
  /\ ledger' = [ledger EXCEPT
       !.syncs = Without(ledger.syncs, k),
       !.results = Append(ledger.results, LedgerResult(ledger.syncs[k].ws, ""))]
  /\ UNCHANGED << fault, handled, shutdown >>
  /\ UNCHANGED << matrixVars, client, remote >>

\* updateLedger rejects: syncLedger rethrows and the catch answers ERROR with
\* the message of the failure.
SyncLedgerFailed(k) ==
  /\ k \in DOMAIN ledger.syncs
  /\ LET answered == sendMessage(peers, sockets, ledger.syncs[k].ws,
                                 ErrorMessage("Update failed"))
     IN peers' = answered.peers /\ sockets' = answered.sockets
  /\ ledger' = [ledger EXCEPT
       !.syncs = Without(ledger.syncs, k),
       !.results = Append(ledger.results, LedgerResult(ledger.syncs[k].ws, "Update failed"))]
  /\ UNCHANGED << fault, handled, shutdown >>
  /\ UNCHANGED << matrixVars, client, remote >>

\* handleMessage, the buffer parses and this.peers.get(peerId) finds nobody:
\* ws.terminate(); return.
HandleMessageStranded(ws, kind) ==
  /\ Receives(ws)
  /\ Parses(kind)
  /\ ~SenderKnown(ws)
  /\ sockets' = terminate(sockets, ws)
  /\ handled' = Append(handled, Handled(ws, kind, Message("")))
  /\ UNCHANGED << peers, fault, ledger, shutdown >>
  /\ UNCHANGED << matrixVars, client, remote >>

\* Peers connect, disconnect, announce triads and send what is no envelope of
\* the protocol.
MessageNext ==
  \/ Len(sockets) < MaxLinks - 1 /\ HandleNewConnection
  \/ \E ws \in DOMAIN sockets : SocketCloseIncoming(ws)
  \/ \E ws \in DOMAIN sockets, kind \in RawKinds : HandleMessageInvalid(ws, kind)
  \/ \E ws \in DOMAIN sockets, message \in MessageInputs : HandleMessageUnknown(ws, message)
  \/ \E ws \in DOMAIN sockets, message \in MessageInputs : HandleNewTriad(ws, message)

MessageSpec == MessageInit /\ [][MessageNext]_vars

\* Peers connect, disconnect and send ledger batches.
LedgerNext ==
  \/ Len(sockets) < MaxLinks - 2 /\ HandleNewConnection
  \/ \E ws \in DOMAIN sockets : SocketCloseIncoming(ws)
  \/ \E ws \in DOMAIN sockets, message \in MessageInputs : HandleSyncLedgerUnavailable(ws, message)
  \/ \E ws \in DOMAIN sockets, message \in MessageInputs : HandleSyncLedgerRefused(ws, message)
  \/ \E ws \in DOMAIN sockets, message \in MessageInputs : HandleSyncLedger(ws, message)
  \/ \E k \in DOMAIN ledger.syncs : SyncLedgerUpdated(k)
  \/ \E k \in DOMAIN ledger.syncs : SyncLedgerFailed(k)

LedgerSpec == MessageInit /\ [][LedgerNext]_vars

----------------------------------------------------------------------------
\* The node over its store: setupEventHandlers() has subscribed broadcast to
\* the store's 'triadCreated' and 'triadValidated'.

\* The envelope the listener of 'triadCreated' broadcasts.
NewTriad(triad) == [Message("NEW_TRIAD") EXCEPT !.triad = triad]
\* The envelope the listener of 'triadValidated' broadcasts.
TriadValidatedConfirmation(triad) ==
  [Message("TRIAD_VALIDATED_CONFIRMATION") EXCEPT !.triad = triad]

\* The node is made with a store that has loaded one triad.
EventInit == MessageInit /\ ~ledger.dbConnection

\* The listener of 'triadCreated' leaves out the first peer.
MutEmitTriadCreated_SkipsFirstPeer(i) ==
  /\ At(i, "createTriad", "wrotemeta")
  /\ emitted' = Emit("triadCreated", calls[i].triad)
  /\ ret' = Resolved("createTriad", calls[i].triad)
  /\ calls' = Without(calls, i)
  /\ LET told == broadcast(peers, sockets, NewTriad(calls[i].triad),
                           IF DOMAIN peers = {} THEN NoPeerId ELSE KeyOrder(DOMAIN peers)[1])
     IN peers' = told.peers /\ sockets' = told.sockets
  /\ UNCHANGED << invoked, fault, ledger, handled, shutdown, client, remote >>
  /\ UNCHANGED << config, mirror, validators, isInitialized, db, evaluated >>

\* emit('triadCreated', triad) of createTriad with the node's listener, which
\* runs inside the emit; return triad.
EmitTriadCreated(i) ==
  /\ At(i, "createTriad", "wrotemeta")
  /\ emitted' = Emit("triadCreated", calls[i].triad)
  /\ ret' = Resolved("createTriad", calls[i].triad)
  /\ calls' = Without(calls, i)
  /\ LET told == broadcast(peers, sockets, NewTriad(calls[i].triad), NoPeerId)
     IN peers' = told.peers /\ sockets' = told.sockets
  /\ UNCHANGED << invoked, fault, ledger, handled, shutdown, client, remote >>
  /\ UNCHANGED << config, mirror, validators, isInitialized, db, evaluated >>

\* emit('triadValidated', triad) of validateTriad with the node's listener;
\* return triad.
EmitTriadValidated(i) ==
  /\ At(i, "validateTriad", "wrote")
  /\ emitted' = Emit("triadValidated", calls[i].triad)
  /\ ret' = Resolved("validateTriad", calls[i].triad)
  /\ calls' = Without(calls, i)
  /\ LET told == broadcast(peers, sockets, TriadValidatedConfirmation(calls[i].triad), NoPeerId)
     IN peers' = told.peers /\ sockets' = told.sockets
  /\ UNCHANGED << invoked, fault, ledger, handled, shutdown, client, remote >>
  /\ UNCHANGED << config, mirror, validators, isInitialized, db, evaluated >>

\* Peers connect and fail while the store creates and validates.
EventNext ==
  \/ Len(sockets) < MaxLinks - 1 /\ HandleNewConnection
  \/ \E ws \in DOMAIN sockets : SocketErrorIncoming(ws)
  \/ CreateTriad("data", "v2", <<2, 2, 2>>)
  \/ \E i \in 1..Len(calls) : CreateTriadPutLands(i)
  \/ \E i \in 1..Len(calls) : CreateTriadSave(i)
  \/ \E i \in 1..Len(calls) : CreateTriadSaveLands(i)
  \/ \E i \in 1..Len(calls) : EmitTriadCreated(i)
  \/ \E triadId \in TriadIdInputs : ValidateTriad(triadId, "v1")
  \/ \E i \in 1..Len(calls) : ValidateTriadGetLands(i)
  \/ \E i \in 1..Len(calls) : ValidateTriadAlready(i)
  \/ \E i \in 1..Len(calls) : ValidateTriadEvaluate(i)
  \/ \E i \in 1..Len(calls) : ValidateTriadPutLands(i)
  \/ \E i \in 1..Len(calls) : EmitTriadValidated(i)

EventSpec == EventInit /\ [][EventNext]_vars

----------------------------------------------------------------------------
\* close(): the shutdown of a node that has inbound and outbound peers.

\* close() up to its first await: the notice is broadcast, every peer whose
\* socket is open is asked to close (ws.close, once('close'), a 5000 ms
\* timer), and the promises are awaited.
Close ==
  /\ shutdown.pc = "running"
  /\ LET told == broadcast(peers, sockets, ErrorMessage("Node shutting down"), NoPeerId)
         asked == { ws \in DOMAIN sockets :
                      /\ \E id \in DOMAIN told.peers : told.peers[id].ws = ws
                      /\ told.sockets[ws].readyState = "OPEN" }
     IN /\ peers' = told.peers
        /\ sockets' = [ ws \in DOMAIN sockets |->
                          IF ws \in asked
                          THEN [told.sockets[ws] EXCEPT !.readyState = "CLOSING"]
                          ELSE told.sockets[ws] ]
        /\ shutdown' = [ pc |-> "waiting", asked |-> asked ]
  /\ UNCHANGED << fault, ledger, handled >>
  /\ UNCHANGED << matrixVars, client, remote >>

\* The 5000 ms timer of a socket asked to close: a socket that is not closed
\* is terminated and its promise resolved.
CloseTimeout(ws) ==
  /\ ws \in shutdown.asked
  /\ sockets' = IF sockets[ws].readyState /= "CLOSED" THEN terminate(sockets, ws) ELSE sockets
  /\ shutdown' = [shutdown EXCEPT !.asked = @ \ {ws}]
  /\ UNCHANGED << peers, fault, ledger, handled >>
  /\ UNCHANGED << matrixVars, client, remote >>

\* The await of Promise.race ends: every socket asked has had its 'close' or
\* its timer (the 6000 ms timer comes after those).  this.peers.clear(), and
\* this.server.close(callback) stops the listening.
CloseWaited ==
  /\ shutdown.pc = "waiting"
  /\ \A ws \in shutdown.asked : sockets[ws].readyState = "CLOSED"
  /\ peers' = NoPeers
  /\ shutdown' = [shutdown EXCEPT !.pc = "server"]
  /\ UNCHANGED << sockets, fault, ledger, handled >>
  /\ UNCHANGED << matrixVars, client, remote >>

\* The callback of server.close: the server has no connection left.
\* removeAllListeners(), and close() returns.
ServerClosed ==
  /\ shutdown.pc = "server"
  /\ \A ws \in DOMAIN sockets :
       sockets[ws].direction = "incoming" => sockets[ws].readyState = "CLOSED"
  /\ shutdown' = [shutdown EXCEPT !.pc = "returned"]
  /\ UNCHANGED << peers, sockets, fault, ledger, handled >>
  /\ UNCHANGED << matrixVars, client, remote >>

\* Peers connect while the server listens, outbound attempts made before the
\* shutdown open or fail, connections close, and close() runs once.
\* The callback of the setInterval of startPeerDiscovery, which nothing
\* clears: with fewer than maxPeers / 2 peers DISCOVERY is broadcast.
DiscoveryTimer ==
  /\ Len(handled) < MaxMessages
  /\ LET asked == IF 2 * PeersSize < MaxPeers
                  THEN broadcast(peers, sockets, DiscoveryRequest, NoPeerId)
                  ELSE [ peers |-> peers, sockets |-> sockets ]
     IN peers' = asked.peers /\ sockets' = asked.sockets
  /\ handled' = Append(handled, Handled(NoPeerId, "timer", DiscoveryRequest))
  /\ UNCHANGED << fault, ledger, shutdown >>
  /\ UNCHANGED << matrixVars, client, remote >>

\* The event loop takes a turn: always, except while close() waits with no
\* socket left to close, when its continuation runs before any other event.
Turns ==
  \/ shutdown.pc /= "waiting"
  \/ \E ws \in shutdown.asked : sockets[ws].readyState /= "CLOSED"

ShutdownNext ==
  \/ /\ Turns
     /\ shutdown.pc \in {"running", "waiting"}
     /\ Len(sockets) < MaxLinks - 1
     /\ HandleNewConnection
  \/ \E peerAddress \in PeerAddresses :
       shutdown.pc = "running" /\ Len(sockets) < MaxLinks - 1 /\ ConnectToPeer(peerAddress)
  \/ \E ws \in DOMAIN sockets : Turns /\ SocketOpen(ws)
  \/ \E ws \in DOMAIN sockets : Turns /\ SocketErrorOutgoing(ws)
  \/ \E ws \in DOMAIN sockets : Turns /\ SocketCloseIncoming(ws)
  \/ \E ws \in DOMAIN sockets : Turns /\ SocketCloseOutgoing(ws)
  \/ Close
  \/ \E ws \in DOMAIN sockets : Turns /\ CloseTimeout(ws)
  \/ Turns /\ DiscoveryTimer
  \/ CloseWaited
  \/ ServerClosed

ShutdownSpec == NodeInit /\ [][ShutdownNext]_vars

----------------------------------------------------------------------------
\* Two nodes: the second dials this one, both greet, and the second asks for
\* peers.  The second node's map and socket are in remote; its socket 1 and
\* this node's socket remote.link are the two ends of one connection, and
\* what one end has sent the other handles in order.

\* The envelope of the dialing node this node handles next, if any.
NextAtLocal ==
  IF remote.sockets /= << >> /\ remote.delivered < Len(remote.sockets[1].sent)
  THEN remote.sockets[1].sent[remote.delivered + 1]
  ELSE Message("")

\* The envelope of this node the dialing node handles next, if any.
NextAtRemote ==
  IF remote.link /= 0 /\ remote.received < Len(sockets[remote.link].sent)
  THEN sockets[remote.link].sent[remote.received + 1]
  ELSE Message("")

\* connectToPeer(<this node's address>) on the second node.
PairConnect ==
  /\ remote.sockets = << >>
  /\ Cardinality(DOMAIN remote.peers) < MaxPeers
  /\ ~\E id \in DOMAIN remote.peers : remote.peers[id].url = getPublicAddress
  /\ remote' = [remote EXCEPT
       !.sockets = << WebSocket("outgoing", getPublicAddress, "CONNECTING", TRUE) >>]
  /\ UNCHANGED << peers, sockets, fault, ledger, handled, shutdown >>
  /\ UNCHANGED << matrixVars, client >>

\* This node's 'connection' event for the second node's attempt:
\* handleNewConnection adds the peer, greets it and registers its handlers.
PairAccept ==
  /\ remote.link = 0
  /\ remote.sockets /= << >>
  /\ remote.sockets[1].readyState = "CONNECTING"
  /\ PeersSize < MaxPeers
  /\ LET ws == Len(sockets) + 1
         made == Append(sockets, WebSocket("incoming", NoUrl, "OPEN", TRUE))
         greeted == sendHandshake(addPeer(peers, ws, ws, "incoming", NoUrl), made, ws)
     IN /\ peers' = greeted.peers
        /\ sockets' = greeted.sockets
        /\ remote' = [remote EXCEPT !.link = ws]
  /\ UNCHANGED << fault, ledger, handled, shutdown >>
  /\ UNCHANGED << matrixVars, client >>

\* 'open' on the second node's socket: the peer is added under its temporary
\* id, greeted, and asked for its peers.
PairOpen ==
  /\ remote.link /= 0
  /\ remote.sockets[1].readyState = "CONNECTING"
  /\ LET open == [remote.sockets EXCEPT ![1].readyState = "OPEN"]
         greeted == sendHandshake(addPeer(remote.peers, 1, 1, "outgoing", remote.sockets[1].url),
                                  open, 1)
         asked == sendMessage(greeted.peers, greeted.sockets, 1, Message("DISCOVERY"))
     IN remote' = [remote EXCEPT !.peers = asked.peers, !.sockets = asked.sockets]
  /\ UNCHANGED << peers, sockets, fault, ledger, handled, shutdown >>
  /\ UNCHANGED << matrixVars, client >>

\* case HANDSHAKE on this node, handleHandshake(ws, message, peer): the peer
\* is acknowledged; the map and the sockets stay as they are.
PairHandshakeAtLocal ==
  /\ NextAtLocal.type = "HANDSHAKE"
  /\ Receives(remote.link)
  /\ SenderKnown(remote.link)
  /\ handled' = Append(handled, Handled(remote.link, "json", NextAtLocal))
  /\ remote' = [remote EXCEPT !.delivered = @ + 1]
  /\ UNCHANGED << peers, sockets, fault, ledger, shutdown >>
  /\ UNCHANGED << matrixVars, client >>

\* case DISCOVERY on this node: the requester is sent PEERS.
PairDiscoveryAtLocal ==
  /\ NextAtLocal.type = "DISCOVERY"
  /\ Receives(remote.link)
  /\ SenderKnown(remote.link)
  /\ LET answered == sendMessage(peers, sockets, remote.link,
                                 [Message("PEERS") EXCEPT !.addresses = getPeerAddresses(peers)])
     IN peers' = answered.peers /\ sockets' = answered.sockets
  /\ handled' = Append(handled, Handled(remote.link, "json", NextAtLocal))
  /\ remote' = [remote EXCEPT !.delivered = @ + 1]
  /\ UNCHANGED << fault, ledger, shutdown >>
  /\ UNCHANGED << matrixVars, client >>

\* case HANDSHAKE on the second node: the peer is acknowledged.
PairHandshakeAtRemote ==
  /\ NextAtRemote.type = "HANDSHAKE"
  /\ remote.sockets[1].readyState = "OPEN"
  /\ findPeerIdByWs(remote.peers, 1, 1) \in DOMAIN remote.peers
  /\ remote' = [remote EXCEPT !.received = @ + 1]
  /\ UNCHANGED << peers, sockets, fault, ledger, handled, shutdown >>
  /\ UNCHANGED << matrixVars, client >>

\* case PEERS on the second node, handlePeersList(payload): every address of
\* the list is one it is connected to, and it dials nobody.
PairPeersAtRemote ==
  /\ NextAtRemote.type = "PEERS"
  /\ remote.sockets[1].readyState = "OPEN"
  /\ findPeerIdByWs(remote.peers, 1, 1) \in DOMAIN remote.peers
  /\ \A address \in NextAtRemote.addresses :
       \E id \in DOMAIN remote.peers : remote.peers[id].url = address
  /\ remote' = [remote EXCEPT !.received = @ + 1]
  /\ UNCHANGED << peers, sockets, fault, ledger, handled, shutdown >>
  /\ UNCHANGED << matrixVars, client >>

\* The second node dials, both ends open and greet, the request is answered;
\* other peers connect to this node meanwhile, and connections fail.
PairNext ==
  \/ Len(sockets) < MaxLinks /\ HandleNewConnection
  \/ \E ws \in DOMAIN sockets : SocketErrorIncoming(ws)
  \/ PairConnect
  \/ Len(sockets) < MaxLinks /\ PairAccept
  \/ PairOpen
  \/ PairHandshakeAtLocal
  \/ PairDiscoveryAtLocal
  \/ PairHandshakeAtRemote
  \/ PairPeersAtRemote

PairSpec == NodeInit /\ [][PairNext]_vars

----------------------------------------------------------------------------
\* The mining client (src/src/cli/miner.js) over the store.  It makes the
\* store, awaits an init() of its own next to the one of the constructor,
\* registers its wallet as a validator and runs mining cycles.

\* The mining cycles one run of the miner makes.
MaxCycles == 2

\* this.wallet.getAddress()
WalletAddress == "v2"

\* The miner process after new TriadMatrix(...) and this.matrix.init(): two
\* init() calls in flight, the second one awaited by the miner and marked
\* with its address.
MinerInit ==
  \E start \in StartInputs :
    /\ dimensions = validateDimensions(start.options.dimensions)
    /\ complexity = validateComplexity(start.options.complexity)
    /\ consensusThreshold = validateConsensusThreshold(start.options.consensusThreshold)
    /\ matrix = <<>>
    /\ triads = NoTriads
    /\ validators = {}
    /\ isInitialized = FALSE
    /\ dbTriads = start.store.triads
    /\ dbMeta = start.store.meta
    /\ calls = << [Idle EXCEPT !.op = "init", !.pc = "getmeta"],
                  [Idle EXCEPT !.op = "init", !.pc = "getmeta",
                               !.validatorId = WalletAddress] >>
    /\ invoked = 2
    /\ emitted = [count |-> 0, event |-> "none", triad |-> NoTriad]
    /\ ret = NoReturn
    /\ evaluated = [ id \in DOMAIN start.store.triads |->
                       [ calls |-> start.store.triads[id].validationAttempts,
                         registered |-> start.store.triads[id].validationAttempts ] ]
    /\ peers = NoPeers
    /\ sockets = << >>
    /\ fault = FALSE
    /\ ledger = NoLedger
    /\ handled = << >>
    /\ shutdown = NotClosing
    /\ miner = initializeState
    /\ tokenomics = NoTokenomics
    /\ remote = NoRemote

\* The call the miner awaits is in flight.
MinerAwaits(op) ==
  \E i \in 1..Len(calls) : calls[i].op = op /\ calls[i].validatorId = WalletAddress

\* state.triads.filter(t => !t.validated && t.validator !== walletAddress),
\* over the mirror's index, as ids.
unvalidatedTriads ==
  SelectSeq(KeyOrder(DOMAIN triads),
            LAMBDA id : ~triads[id].validated /\ triads[id].validator /= WalletAddress)

\* if (updatedTriad.validated): the reward is due.
RewardDue(updatedTriad) == updatedTriad.validated

\* init() past await this.matrix.init(): registerValidator().
MinerRegisterValidator ==
  /\ miner.pc = "init"
  /\ ~MinerAwaits("init")
  /\ UNCHANGED tokenomics
  /\ miner' = [miner EXCEPT !.pc = "idle"]
  /\ UNCHANGED << config, mirror, isInitialized, db, emitted, evaluated, network >>
  /\ IF WalletAddress \notin validators
     THEN /\ validators' = validators \cup {WalletAddress}
          /\ invoked' = invoked + 1
          /\ calls' = Append(calls, [Idle EXCEPT !.op = "addValidator", !.pc = "putmeta",
                                                 !.meta = StateMetadata'])
          /\ ret' = Returned("addValidator", TRUE)
     ELSE UNCHANGED << validators, invoked, calls, ret >>

\* miningCycle() up to its loop: the unvalidated triads of others are listed.
MinerCycle ==
  /\ miner.pc = "idle"
  /\ miner.cycles < MaxCycles
  /\ UNCHANGED tokenomics
  /\ miner' = [miner EXCEPT !.pc = "loop", !.queue = unvalidatedTriads,
                            !.cycles = miner.cycles + 1]
  /\ UNCHANGED << matrixVars, network >>

\* await this.matrix.validateTriad(triad.id, walletAddress), up to its read.
MinerValidateTriad ==
  /\ miner.pc = "loop"
  /\ miner.queue /= << >>
  /\ validateInitialization
  /\ calls' = Append(calls, [Idle EXCEPT !.op = "validateTriad", !.pc = "get",
                                         !.triadId = Head(miner.queue),
                                         !.validatorId = WalletAddress])
  /\ invoked' = invoked + 1
  /\ UNCHANGED tokenomics
  /\ miner' = [miner EXCEPT !.pc = "await"]
  /\ UNCHANGED << config, mirror, validators, isInitialized, db, emitted, ret, evaluated,
                  network >>

\* validateTriad has resolved: the reward is minted if the record returned is
\* validated, and the loop goes on.
MinerValidated ==
  /\ miner.pc = "await"
  /\ ~MinerAwaits("validateTriad")
  /\ ret.op = "validateTriad" /\ ret.outcome = "resolved"
  /\ UNCHANGED tokenomics
  /\ LET id == Head(miner.queue)
         before == IF id \in DOMAIN miner.minted THEN miner.minted[id] ELSE 0
     IN miner' = [miner EXCEPT !.pc = "loop", !.queue = Tail(miner.queue),
                               !.minted = IF RewardDue(ret.triad)
                                          THEN Put(miner.minted, id, before + 1)
                                          ELSE miner.minted]
  /\ UNCHANGED << matrixVars, network >>

\* The loop is over: printStats(), and the cycle ends.
MinerCycleDone ==
  /\ miner.pc = "loop"
  /\ miner.queue = << >>
  /\ UNCHANGED tokenomics
  /\ miner' = [miner EXCEPT !.pc = "idle"]
  /\ UNCHANGED << matrixVars, network >>

MinerNext ==
  \/ \E i \in 1..Len(calls) : InitGetLands(i)
  \/ \E i \in 1..Len(calls) : InitLoaded(i)
  \/ \E i \in 1..Len(calls) : InitNotFound(i)
  \/ \E i \in 1..Len(calls) : InitScan(i)
  \/ \E i \in 1..Len(calls) : InitScanDone(i)
  \/ \E i \in 1..Len(calls) : InitSaveLands(i)
  \/ \E i \in 1..Len(calls) : InitSaved(i)
  \/ \E i \in 1..Len(calls) : AddValidatorSaveLands(i)
  \/ \E i \in 1..Len(calls) : ValidateTriadGetLands(i)
  \/ \E i \in 1..Len(calls) : ValidateTriadAlready(i)
  \/ \E i \in 1..Len(calls) : ValidateTriadEvaluate(i)
  \/ \E i \in 1..Len(calls) : ValidateTriadPutLands(i)
  \/ \E i \in 1..Len(calls) : ValidateTriadAck(i)
  \/ MinerRegisterValidator
  \/ MinerCycle
  \/ MinerValidateTriad
  \/ MinerValidated
  \/ MinerCycleDone

MinerSpec == MinerInit /\ [][MinerNext]_vars

----------------------------------------------------------------------------
\* Steps of single calls

\* The step is one of call i: the other calls in flight are as they were.
StepOf(i) ==
  /\ calls' /= calls
  /\ \/ calls' = Without(calls, i)
     \/ /\ Len(calls') = Len(calls)
        /\ \A j \in 1..Len(calls) : j /= i => calls'[j] = calls[j]

\* Call i, which read an unvalidated record, computes its score in this step.
Evaluates(i) ==
  /\ At(i, "validateTriad", "got")
  /\ calls[i].triad /= NoTriad
  /\ ~calls[i].triad.validated
  /\ validateValidator(calls[i].validatorId)
  /\ StepOf(i)

\* The batch of an evaluated validateTriad call i is applied in this step.
Writes(i) == At(i, "validateTriad", "put") /\ StepOf(i)

\* Call i has evaluated and not yet returned.
Evaluating(i) ==
  i \in 1..Len(calls) /\ calls[i].op = "validateTriad" /\ calls[i].pc \in {"put", "wrote"}

\* No validateTriad call on id is in flight.
Quiet(id) ==
  \A i \in 1..Len(calls) : ~(calls[i].op = "validateTriad" /\ calls[i].triadId = id)

\* The squared distance of two positions: exact, no square root taken.
SquaredDistance(p, q) == Square(p[1] - q[1]) + Square(p[2] - q[2]) + Square(p[3] - q[3])

\* No other triad of the mirror lies at a distance in (0, complexity] of t.
NoNeighbour(t) ==
  \A k \in 1..Len(matrix) :
    matrix[k].id /= t.id =>
      \/ SquaredDistance(matrix[k].position, t.position) = 0
      \/ SquaredDistance(matrix[k].position, t.position) > complexity * complexity

\* Records a and b agree on what validateTriad may change.
SameValidation(a, b) ==
  /\ a.validated = b.validated
  /\ a.consensus = b.consensus
  /\ a.validationAttempts = b.validationAttempts

\* Record new is record old with only the validation fields changed.
SameTriad(old, new) ==
  /\ new.id = old.id /\ new.data = old.data /\ new.validator = old.validator
  /\ new.position = old.position /\ new.connections = old.connections

----------------------------------------------------------------------------
\* Claims

\* C1: for every triad id, once the stored record has validated = true, no
\* later state has validated = false for that id, under any interleaving of
\* validateTriad calls on that id.
C1_ValidatedNeverReverts ==
  [][ \A id \in DOMAIN dbTriads : dbTriads[id].validated => dbTriads'[id].validated ]_vars

\* C2: once the validateTriad calls on a triad have completed, the stored
\* validationAttempts equals the number of calls that found the triad
\* unvalidated and evaluated a score.
C2_AttemptsCountEvaluations ==
  \A id \in DOMAIN dbTriads :
    Quiet(id) => dbTriads[id].validationAttempts = Evaluated(id).calls

\* C3: after every acknowledged createTriad or validateTriad, the mirror (the
\* flat list and the index by id) holds for every triad id a record with the
\* validated, consensus and validationAttempts of the persisted record.
C3_MirrorEqualsStore ==
  (calls = <<>> /\ ret.outcome = "resolved") =>
    /\ \A id \in DOMAIN dbTriads :
         id \in DOMAIN triads /\ SameValidation(triads[id], dbTriads[id])
    /\ \A k \in 1..Len(matrix) :
         matrix[k].id \in DOMAIN dbTriads /\ SameValidation(matrix[k], dbTriads[matrix[k].id])

\* C4: a validateTriad call with a well-formed validator id that reads a
\* record with validated = true returns that record and changes nothing: no
\* write is issued, the store, the mirror and the evaluation count stay as
\* they are and no event is emitted.
C4_ValidatedIsNoOp ==
  [][ \A i \in 1..Len(calls) :
        ( /\ At(i, "validateTriad", "got")
          /\ calls[i].triad.validated
          /\ validateValidator(calls[i].validatorId)
          /\ StepOf(i) ) =>
          /\ calls' = Without(calls, i)
          /\ ret' = Resolved("validateTriad", calls[i].triad)
          /\ UNCHANGED << dbTriads, dbMeta, matrix, triads, emitted, evaluated >> ]_vars

C4_Witness ==
  /\ ret.op = "validateTriad" /\ ret.outcome = "resolved"
  /\ ret.triad.validated
  /\ ret.triad.id \in DOMAIN dbTriads /\ dbTriads[ret.triad.id] = ret.triad
  /\ emitted.event /= "triadValidated"
  /\ calls = <<>>

\* C5: an evaluated validateTriad call sets validated = true exactly when the
\* score it computed is >= consensusThreshold; otherwise the triad stays
\* unvalidated; either way consensus is the new score, validationAttempts is
\* one more than in the record read, and that record is what is stored.
C5_ValidatedIffThreshold ==
  [][ \A i \in 1..Len(calls) :
        /\ Evaluates(i) =>
             /\ Len(calls') = Len(calls) /\ calls'[i].pc = "put"
             /\ SameTriad(calls[i].triad, calls'[i].triad)
             /\ calls'[i].triad.validated = (calls'[i].triad.consensus >= consensusThreshold)
             /\ calls'[i].triad.validationAttempts = calls[i].triad.validationAttempts + 1
        /\ Writes(i) => dbTriads' = Put(dbTriads, calls[i].triadId, calls[i].triad) ]_vars

\* A registered validator's score stayed below the threshold and is stored.
C5_Witness ==
  \E id \in DOMAIN dbTriads :
    /\ ~dbTriads[id].validated
    /\ dbTriads[id].consensus >= BASE_SCORE
    /\ dbTriads[id].consensus < consensusThreshold
    /\ dbTriads[id].validationAttempts = 1

\* C6: when no other triad lies at a distance in (0, complexity] from the
\* subject, validateTriad by a registered validator on a record read as
\* unvalidated yields consensus = 0.7, validationAttempts one more, and
\* validated = (0.7 >= consensusThreshold), true under the default threshold.
C6_NoNeighbourScore ==
  [][ \A i \in 1..Len(calls) :
        ( /\ Evaluates(i)
          /\ calls[i].validatorId \in validators
          /\ NoNeighbour(calls[i].triad) ) =>
          /\ Len(calls') = Len(calls)
          /\ calls'[i].triad.consensus = BASE_SCORE
          /\ calls'[i].triad.validationAttempts = calls[i].triad.validationAttempts + 1
          /\ calls'[i].triad.validated = (BASE_SCORE >= consensusThreshold)
          /\ consensusThreshold = DEFAULT_CONSENSUS_THRESHOLD => calls'[i].triad.validated ]_vars

\* The subject shares its position with another triad and scored 0.7.
C6_Witness ==
  \E i \in 1..Len(calls) :
    /\ Evaluating(i)
    /\ calls[i].validatorId \in validators
    /\ NoNeighbour(calls[i].triad)
    /\ \E k \in 1..Len(matrix) : matrix[k].id /= calls[i].triadId
    /\ calls[i].triad.consensus = BASE_SCORE
    /\ calls[i].triad.validated

\* C7: validateTriad by an id that is not in the validator set, on a record
\* read as unvalidated, sets consensus to 0, adds one to validationAttempts
\* and leaves validated false; a stored triad is validated only if some call
\* by a registered validator evaluated it.
C7_UnregisteredNeverValidates ==
  /\ [][ \A i \in 1..Len(calls) :
          (Evaluates(i) /\ calls[i].validatorId \notin validators) =>
            /\ Len(calls') = Len(calls)
            /\ calls'[i].triad.consensus = 0
            /\ calls'[i].triad.validationAttempts = calls[i].triad.validationAttempts + 1
            /\ ~calls'[i].triad.validated ]_vars
  /\ [](\A id \in DOMAIN dbTriads :
          dbTriads[id].validated => Evaluated(id).registered > 0)

\* Only unregistered ids evaluated the triad, twice, and it is stored unvalidated.
C7_Witness ==
  \E id \in DOMAIN dbTriads :
    /\ Evaluated(id).registered = 0
    /\ Evaluated(id).calls >= 2
    /\ Quiet(id)
    /\ dbTriads[id].consensus = 0
    /\ ~dbTriads[id].validated
    /\ dbTriads[id].validationAttempts >= 1

\* C8: a validateTriad call whose validator id equals the creator id recorded
\* in the triad never changes that triad to validated.
C8_NoSelfValidation ==
  [][ \A i \in 1..Len(calls) :
        (Writes(i) /\ calls[i].validatorId = calls[i].triad.validator) =>
          ~( /\ ~dbTriads[calls[i].triadId].validated
             /\ dbTriads'[calls[i].triadId].validated ) ]_vars

\* C9: every triad record, stored, mirrored, carried by a call or handed to a
\* caller or a listener, has 0 <= consensus <= 1.
C9_ConsensusInUnitInterval ==
  LET InRange(t) == 0 <= t.consensus /\ t.consensus <= ONE
  IN /\ \A id \in DOMAIN dbTriads : InRange(dbTriads[id])
     /\ \A id \in DOMAIN triads : InRange(triads[id])
     /\ \A i \in 1..Len(calls) : InRange(calls[i].triad)
     /\ InRange(ret.triad) /\ InRange(emitted.triad)

\* A neighbour raised a stored score above the base score.
C9_Witness ==
  \E id \in DOMAIN dbTriads :
    /\ Evaluated(id).calls > 0
    /\ dbTriads[id].consensus > BASE_SCORE
    /\ dbTriads[id].consensus < ONE
    /\ \E k \in 1..Len(matrix) : matrix[k].id /= id /\ matrix[k].validated

\* C10: the validator set is mutated only by addition: an id in the set,
\* put there by addValidator, is in the set in every later state.
C10_ValidatorsOnlyGrow ==
  [][ \A v \in ValidatorIds : v \in validators => v \in validators' ]_vars

\* C11: every operation invoked before the startup load has completed fails
\* and has no effect, none proceeds: while isInitialized is false a call
\* ends only by being rejected and no call but init() is in flight.
C11_NotInitializedRejects ==
  [][ ~isInitialized =>
        /\ ret' /= ret => ret'.outcome = "rejected"
        /\ \A i \in 1..Len(calls') : calls'[i].op = "init" ]_vars

C14_AddValidatorReturn ==
  [][ \A v \in ValidatorIds :
        (AddValidatorKnown(v) \/ AddValidatorNew(v)) =>
          /\ ret'.op = "addValidator" /\ ret'.outcome = "returned"
          /\ ret'.added <=> v \notin validators
          /\ validators' = validators \cup {v} ]_vars

\* A second call with an id returned false while the save of the first,
\* which added it, is still in flight.
C14_Witness ==
  /\ ret = Returned("addValidator", FALSE)
  /\ \E i \in 1..Len(calls) :
       calls[i].op = "addValidator" /\ calls[i].validatorId \in validators

C15_FailedCallsChangeNothing ==
  /\ [][ \A i \in 1..Len(calls) :
          ( /\ At(i, "validateTriad", "got") /\ StepOf(i)
            /\ calls[i].triad = NoTriad \/ calls[i].validatorId = "" ) =>
            /\ calls' = Without(calls, i)
            /\ ret' = Rejected("validateTriad",
                               IF calls[i].triad = NoTriad THEN "NotFound" ELSE "InvalidInput")
            /\ UNCHANGED << dbTriads, dbMeta, matrix, triads, validators, emitted, evaluated >> ]_vars
  /\ [][ \A i \in 1..Len(calls) :
          ( At(i, "getTriadById", "got") /\ StepOf(i) /\ calls[i].triad = NoTriad ) =>
            /\ calls' = Without(calls, i)
            /\ ret' = Rejected("getTriadById", "NotFound")
            /\ UNCHANGED << dbTriads, dbMeta, matrix, triads, validators, emitted, evaluated >> ]_vars
  /\ [](\A i \in 1..Len(calls) :
          calls[i].op = "getTriadById" => calls[i].triadId /= EmptyId)
  /\ [][ ( /\ ret' /= ret /\ ret'.outcome = "rejected"
           /\ ret'.op \in {"validateTriad", "getTriadById"} ) =>
          UNCHANGED << dbTriads, dbMeta, matrix, triads, validators, emitted, evaluated >> ]_vars

\* A validateTriad on an id that no triad has was rejected by a loaded store.
C15_Witness ==
  /\ ret = Rejected("validateTriad", "NotFound")
  /\ isInitialized
  /\ DOMAIN dbTriads /= {}
  /\ emitted.event = "initialized"

\* C17: in every reachable state the active peer set holds at most maxPeers
\* peers.
C17_PeerCap == PeersSize <= MaxPeers

\* C18: the node never holds two active peer entries for the same peer
\* address.
C18_OneEntryPerAddress ==
  \A p, q \in DOMAIN peers :
    (p /= q /\ peers[p].url /= NoUrl) => peers[p].url /= peers[q].url

C20_DiscoveryOnLowPeers ==
  [][ ( /\ \E id \in DOMAIN peers : id \notin DOMAIN peers'
        /\ 2 * Cardinality(DOMAIN peers') < MaxPeers ) =>
        \A id \in DOMAIN peers' :
          sockets[peers'[id].ws].readyState = "OPEN" =>
            sockets'[peers'[id].ws].sent = Append(sockets[peers'[id].ws].sent, DiscoveryRequest) ]_vars

\* The score the neighbours of triad give it when each counts as validated
\* once its stored record is validated.
ScoreByStoredValidation(triad) ==
  LET connections == getTriadConnections(triad)
      StoredValidated(conn) == conn.id \in DOMAIN dbTriads /\ dbTriads[conn.id].validated
      scores == [k \in 1..Len(connections) |->
                   IF StoredValidated(connections[k])
                   THEN calculateConnectionScore(triad, connections[k])
                   ELSE calculateConnectionScore(triad, connections[k]) \div 2]
  IN IF Len(connections) > 0
     THEN Min(ONE, BASE_SCORE + ((SumSeq(scores) \div Len(scores)) * CONNECTION_WEIGHT) \div ONE)
     ELSE BASE_SCORE

\* C30: for a registered validator the score is min(1, 0.7 + 0.3 x the mean
\* of the neighbour contributions) over the other triads at a distance in
\* (0, complexity], a neighbour contributing its full proximity if its stored
\* record is validated at the time of the call, also when it was validated
\* earlier in the same process, and half of it otherwise.  Stated for a call
\* that runs with no other call in flight.
C30_ScoreCountsValidatedNeighbours ==
  [][ \A i \in 1..Len(calls) :
        (Evaluates(i) /\ calls[i].validatorId \in validators /\ Len(calls) = 1) =>
          /\ Len(calls') = Len(calls)
          /\ calls'[i].triad.consensus = ScoreByStoredValidation(calls[i].triad) ]_vars

\* C29: the miner mints the mining reward at most once for any triad: over
\* the mining cycles of one process, a triad that has been validated is not
\* selected again and yields no further reward.
C29_RewardOncePerTriad ==
  \A id \in DOMAIN miner.minted : miner.minted[id] <= 1

\* The envelopes of type type sent on socket ws.
SentOfType(ws, type) == SelectSeq(sockets[ws].sent, LAMBDA m : m.type = type)

\* C23: broadcast(message, originator) sends the message to every peer of
\* the active set other than the originator whose connection is open and
\* takes the write; a peer whose connection is not open or whose send throws
\* gets nothing and does not keep the message from the others, the
\* originator gets nothing, and no error reaches the caller.
C23_BroadcastBestEffort ==
  [][ \A message \in BroadcastInputs, originatorPeerId \in DOMAIN peers \cup {NoPeerId} :
        Broadcast(message, originatorPeerId) =>
          /\ \A id \in DOMAIN peers :
               LET ws == peers[id].ws
               IN IF /\ id /= originatorPeerId
                     /\ sockets[ws].readyState = "OPEN"
                     /\ sockets[ws].broken = "no"
                  THEN sockets'[ws].sent = Append(sockets[ws].sent, message)
                  ELSE sockets'[ws].sent = sockets[ws].sent
          /\ ~fault' ]_vars

\* A broadcast reached a peer although, of two peers connected before it,
\* one has a connection that is closing and one a connection that throws,
\* and neither got the message.
C23_Witness ==
  \E a, b, c \in DOMAIN sockets :
    /\ b < a /\ c < a /\ b /= c
    /\ SentOfType(a, "STATUS_UPDATE") /= << >>
    /\ SentOfType(b, "STATUS_UPDATE") = << >>
    /\ SentOfType(c, "STATUS_UPDATE") = << >>
    /\ sockets[b].readyState = "CLOSING"
    /\ sockets[c].readyState = "OPEN" /\ sockets[c].broken = "ERR_OTHER"
    /\ \E p, q \in DOMAIN peers : peers[p].ws = b /\ peers[q].ws = c

----------------------------------------------------------------------------
\* The step is handleMessage on ws for a buffer of the kind with the envelope.
HandlesMessage(ws, kind, message) == handled' = Append(handled, Handled(ws, kind, message))

\* The buffers of handleMessage as the log records them.
HandledInputs == MessageInputs \cup { Message("") }

\* C24: when handleMessage gets an envelope whose type the protocol does not
\* have, or a buffer that does not parse, exactly one envelope is added to
\* what the sender has been sent: an
\* ERROR, which for the unknown type names the type; the connection is still
\* open, the sender is still in the active set, and no other connection is
\* sent anything.
C24_ProtocolErrorAnswered ==
  [][ \A ws \in DOMAIN sockets : \A kind \in RawKinds : \A message \in HandledInputs :
        ( /\ HandlesMessage(ws, kind, message)
          /\ ~Parses(kind) \/ message.type \notin MESSAGE_TYPES )
        => /\ Len(sockets'[ws].sent) = Len(sockets[ws].sent) + 1
           /\ SubSeq(sockets'[ws].sent, 1, Len(sockets[ws].sent)) = sockets[ws].sent
           /\ sockets'[ws].sent[Len(sockets'[ws].sent)].type = "ERROR"
           /\ Parses(kind) =>
                sockets'[ws].sent[Len(sockets'[ws].sent)].text = UnknownType(message.type)
           /\ sockets'[ws].readyState = "OPEN"
           /\ ws \in DOMAIN peers'
           /\ peers' = peers
           /\ \A other \in DOMAIN sockets \ {ws} : sockets'[other] = sockets[other] ]_vars

\* A peer has sent bytes that do not parse and an envelope of an unknown type,
\* has been sent the two ERROR envelopes after the greeting, and is connected
\* and in the set.
C24_Witness ==
  \E ws \in DOMAIN sockets :
    /\ handled = << Handled(ws, "garbage", Message("")), Handled(ws, "json", Message("PING")) >>
    /\ sockets[ws].sent = << Message("HANDSHAKE"), ErrorMessage("Invalid message format"),
                             ErrorMessage(UnknownType("PING")) >>
    /\ sockets[ws].readyState = "OPEN"
    /\ ws \in DOMAIN peers

\* The entries of the mirror with the id.
MirrorEntries(m, id) == { i \in DOMAIN m : m[i].id = id }

LedgerCalls(fn, result) ==
  { i \in DOMAIN ledger.calls : ledger.calls[i].fn = fn /\ ledger.calls[i].result = result }

\* The step is a SYNC_LEDGER in which isOpenForNewUsers() answers with open.
AsksLedger(open) ==
  /\ Len(ledger'.calls) > Len(ledger.calls)
  /\ ledger'.calls[Len(ledger.calls) + 1] = LedgerCall("isOpenForNewUsers", open, 0)

\* C25: when handleMessage gets SYNC_LEDGER and isOpenForNewUsers() answers
\* false, that is the only call the collaborator gets in the step and no
\* update is left pending, the requester is sent exactly one envelope, an
\* ERROR, its connection is still open and it is still a peer; over the whole
\* run every SYNC_LEDGER makes one isOpenForNewUsers call and updateLedger is
\* called once per answer true and never else.
C25_RefusedSyncAnswered ==
  /\ [][ \A ws \in DOMAIN sockets : \A message \in MessageInputs :
           ( HandlesMessage(ws, "json", message) /\ AsksLedger(FALSE) )
           => /\ Len(ledger'.calls) = Len(ledger.calls) + 1
              /\ ledger'.syncs = ledger.syncs
              /\ Len(sockets'[ws].sent) = Len(sockets[ws].sent) + 1
              /\ sockets'[ws].sent[Len(sockets'[ws].sent)].type = "ERROR"
              /\ sockets'[ws].readyState = "OPEN"
              /\ ws \in DOMAIN peers' ]_vars
  /\ [] ( /\ Cardinality(LedgerCalls("updateLedger", TRUE))
               = Cardinality(LedgerCalls("isOpenForNewUsers", TRUE))
          /\ ledger.dbConnection =>
               Cardinality(LedgerCalls("isOpenForNewUsers", TRUE))
                 + Cardinality(LedgerCalls("isOpenForNewUsers", FALSE))
               = Cardinality({ i \in DOMAIN handled : handled[i].message.type = "SYNC_LEDGER" }) )

\* A requester whose batch the closed collaborator refused, and then one the
\* open collaborator took: the first has the ERROR envelope after the
\* greeting and is connected, and updateLedger has been called once.
C25_Witness ==
  \E ws \in DOMAIN sockets :
    /\ Len(handled) = 2
    /\ handled[1] = Handled(ws, "json", [Message("SYNC_LEDGER") EXCEPT !.ledgerData = 1])
    /\ ledger.calls = << LedgerCall("isOpenForNewUsers", FALSE, 0),
                         LedgerCall("isOpenForNewUsers", TRUE, 0),
                         LedgerCall("updateLedger", TRUE, 1) >>
    /\ SubSeq(sockets[ws].sent, 1, 2)
         = << Message("HANDSHAKE"), ErrorMessage("Database is not open for new users") >>
    /\ sockets[ws].readyState = "OPEN"
    /\ ws \in DOMAIN peers

\* C26: when handleMessage gets SYNC_LEDGER and isOpenForNewUsers() answers
\* true, the collaborator gets one more call in the step, updateLedger with
\* the batch of the envelope; when that call settles and the connection of
\* the requester is still open, the requester is sent exactly one envelope:
\* SYNC_LEDGER_CONFIRMATION with status success if the call resolved, ERROR
\* with the message of the failure if it rejected; nobody else is sent
\* anything.
C26_SyncLedgerAnswered ==
  [][ /\ \A ws \in DOMAIN sockets : \A message \in MessageInputs :
           ( HandlesMessage(ws, "json", message) /\ AsksLedger(TRUE) )
           => /\ Len(ledger'.calls) = Len(ledger.calls) + 2
              /\ ledger'.calls[Len(ledger.calls) + 2]
                   = LedgerCall("updateLedger", TRUE, message.ledgerData)
      /\ Len(ledger'.results) > Len(ledger.results) =>
           LET result == ledger'.results[Len(ledger'.results)] IN
           /\ Len(ledger'.results) = Len(ledger.results) + 1
           /\ ledger'.calls = ledger.calls
           /\ sockets[result.ws].readyState = "OPEN" =>
                sockets'[result.ws].sent
                  = Append(sockets[result.ws].sent,
                           IF result.message = ""
                           THEN [Message("SYNC_LEDGER_CONFIRMATION") EXCEPT !.text = "success"]
                           ELSE ErrorMessage(result.message))
           /\ \A other \in DOMAIN sockets \ {result.ws} : sockets'[other] = sockets[other] ]_vars

\* A requester has sent two batches; the update of the first resolved and
\* that of the second rejected, and the requester has the confirmation and
\* the ERROR envelope with the message of the failure after the greeting.
C26_Witness ==
  \E ws \in DOMAIN sockets :
    /\ ledger.calls = << LedgerCall("isOpenForNewUsers", TRUE, 0),
                         LedgerCall("updateLedger", TRUE, 1),
                         LedgerCall("isOpenForNewUsers", TRUE, 0),
                         LedgerCall("updateLedger", TRUE, 2) >>
    /\ ledger.results = << LedgerResult(ws, ""), LedgerResult(ws, "Update failed") >>
    /\ sockets[ws].sent
         = << Message("HANDSHAKE"),
              [Message("SYNC_LEDGER_CONFIRMATION") EXCEPT !.text = "success"],
              ErrorMessage("Update failed") >>

\* Every peer of the active set whose socket is open is sent the envelope in
\* the step, after what it had been sent.
ToldOpenPeers(message) ==
  \A id \in DOMAIN peers :
    sockets[peers[id].ws].readyState = "OPEN"
      => sockets'[peers[id].ws].sent = Append(sockets[peers[id].ws].sent, message)

\* C21: in the step in which a createTriad call returns its triad, every peer
\* of the active set whose socket is open is sent NEW_TRIAD with that triad;
\* in the step in which a validateTriad call that evaluated returns, every
\* such peer is sent TRIAD_VALIDATED_CONFIRMATION with the updated record the
\* call returns.
C21_StoreEventsBroadcast ==
  [][ \A i \in 1..Len(calls) :
        /\ ( At(i, "createTriad", "wrotemeta") /\ StepOf(i) )
           => /\ ret' = Resolved("createTriad", calls[i].triad)
              /\ ToldOpenPeers(NewTriad(ret'.triad))
        /\ ( At(i, "validateTriad", "wrote") /\ StepOf(i) )
           => /\ ret' = Resolved("validateTriad", calls[i].triad)
              /\ ret'.triad.validationAttempts > 0
              /\ ToldOpenPeers(TriadValidatedConfirmation(ret'.triad)) ]_vars

\* The envelope is among those sent on socket ws.
WasSent(ws, message) == \E k \in DOMAIN sockets[ws].sent : sockets[ws].sent[k] = message

\* Two peers are in the active set; a triad was created while both were open
\* and validated after the socket of one had failed: one has been sent both
\* envelopes, the other only the first.
C21_Witness ==
  \E a, b \in DOMAIN peers :
    /\ sockets[peers[a].ws].readyState = "OPEN"
    /\ sockets[peers[b].ws].readyState = "CLOSING"
    /\ \E created \in DOMAIN triads :
         /\ WasSent(peers[a].ws, NewTriad(triads[created]))
         /\ WasSent(peers[b].ws, NewTriad(triads[created]))
    /\ SentOfType(peers[a].ws, "TRIAD_VALIDATED_CONFIRMATION") /= << >>
    /\ SentOfType(peers[b].ws, "TRIAD_VALIDATED_CONFIRMATION") = << >>

\* C28: when close() has returned, the active set is empty.
C28_ClosedNodeHasNoPeers == shutdown.pc = "returned" => DOMAIN peers = {}

\* C27: once each of two connected nodes has handled the other's HANDSHAKE
\* and the connection is open at both ends, each has the other in its active
\* set; and in the step in which the node that was dialled handles the
\* DISCOVERY of the other, exactly one envelope is added to what the requester
\* has been sent, a PEERS whose list holds the responder's own address, and no
\* other connection is sent anything.
C27_HandshakeThenPeers ==
  /\ [] ( ( /\ remote.delivered >= 1
            /\ remote.received >= 1
            /\ sockets[remote.link].readyState = "OPEN"
            /\ remote.sockets[1].readyState = "OPEN" )
          => /\ \E id \in DOMAIN peers : peers[id].ws = remote.link
             /\ \E id \in DOMAIN remote.peers :
                  remote.peers[id].ws = 1 /\ remote.peers[id].url = getPublicAddress )
  /\ [][ ( remote.delivered' = remote.delivered + 1 /\ NextAtLocal.type = "DISCOVERY" )
         => LET requester == remote.link
                sent == sockets'[requester].sent
            IN /\ Len(sent) = Len(sockets[requester].sent) + 1
               /\ SubSeq(sent, 1, Len(sent) - 1) = sockets[requester].sent
               /\ sent[Len(sent)].type = "PEERS"
               /\ getPublicAddress \in sent[Len(sent)].addresses
               /\ \A other \in DOMAIN sockets \ {requester} : sockets'[other] = sockets[other] ]_vars

\* The two nodes have greeted each other and hold each other as peers; the
\* one that dialled has handled the PEERS envelope with the responder's
\* address, and another peer of the responder has been sent its greeting
\* only.
C27_Witness ==
  /\ remote.delivered = 2
  /\ remote.received = 2
  /\ remote.link \in DOMAIN peers
  /\ 1 \in DOMAIN remote.peers
  /\ sockets[remote.link].sent
       = << Message("HANDSHAKE"), [Message("PEERS") EXCEPT !.addresses = {getPublicAddress}] >>
  /\ \E other \in DOMAIN peers \ {remote.link} :
       /\ other < remote.link
       /\ sockets[other].readyState = "OPEN"
       /\ sockets[other].sent = << Message("HANDSHAKE") >>

----------------------------------------------------------------------------
\* The persisted triads whose validated flag is true.
PersistedValidated(store) == { id \in DOMAIN store : store[id].validated }

\* Call i is the only call in flight and ends in this step with a result.
Completes(i) ==
  /\ Len(calls) = 1
  /\ StepOf(i)
  /\ calls' = Without(calls, i)

\* C32: in the step in which a createTriad, an evaluated validateTriad or the
\* save of an addValidator completes, with no other call in flight, the
\* persisted metadata record counts the persisted triads and the persisted
\* validated triads.
C32_MetadataCountsStore ==
  [][ \A i \in 1..Len(calls) :
        ( /\ Completes(i)
          /\ \/ At(i, "createTriad", "wrotemeta")
             \/ At(i, "validateTriad", "wrote")
             \/ At(i, "addValidator", "putmeta") )
        => /\ dbMeta'.present
           /\ dbMeta'.triadsCount = Cardinality(DOMAIN dbTriads')
           /\ dbMeta'.validatedTriadsCount = Cardinality(PersistedValidated(dbTriads')) ]_vars

----------------------------------------------------------------------------
\* C35: the last event the store emitted is a triadValidated event only for a
\* triad whose validated flag is true, and every confirmation envelope sent to
\* a peer carries such a triad.
C35_ValidatedEventMeansValidated ==
  /\ emitted.event = "triadValidated" => emitted.triad.validated
  /\ \A k \in 1..Len(sockets) : \A n \in 1..Len(sockets[k].sent) :
       sockets[k].sent[n].type = MESSAGE_TYPES.TRIAD_VALIDATED
         => sockets[k].sent[n].triad.validated

----------------------------------------------------------------------------
\* createTriad on a loaded store whose writes can fail.
FailNext ==
  \/ \E data \in DataInputs, position \in PositionInputs :
       CreateTriad(data, "v1", position)
  \/ \E i \in 1..Len(calls) : CreateTriadPutLands(i)
  \/ \E i \in 1..Len(calls) : CreateTriadPutFails(i)
  \/ \E i \in 1..Len(calls) : CreateTriadSave(i)
  \/ \E i \in 1..Len(calls) : CreateTriadSaveLands(i)
  \/ \E i \in 1..Len(calls) : CreateTriadSaveFails(i)
  \/ \E i \in 1..Len(calls) : CreateTriadAck(i)

FailSpec == EventInit /\ [][FailNext]_vars

\* C31: in the step in which a createTriad call rejects because one of its
\* writes failed, neither the mirror nor the store holds the triad of the call
\* and no event is emitted.
C31_FailedCreateLeavesNothing ==
  [][ \A i \in 1..Len(calls) :
        ( /\ calls[i].op = "createTriad"
          /\ StepOf(i)
          /\ calls' = Without(calls, i)
          /\ ret'.outcome = "rejected" )
        => /\ MirrorEntries(matrix', calls[i].triadId) = {}
           /\ calls[i].triadId \notin DOMAIN triads'
           /\ calls[i].triadId \notin DOMAIN dbTriads'
           /\ emitted' = emitted ]_vars

----------------------------------------------------------------------------
\* C36: the mirror list and the mirror index hold the same triads, no id is
\* twice in the list, and the triadsCount of the snapshot is the number of
\* triads the snapshot lists, also while and after two init() calls load.
C36_MirrorListMatchesIndex ==
  /\ { matrix[k].id : k \in DOMAIN matrix } = DOMAIN triads
  /\ \A id \in DOMAIN triads : Cardinality(MirrorEntries(matrix, id)) = 1
  /\ getMatrixState.triadsCount = Cardinality(getMatrixState.triads)

----------------------------------------------------------------------------
\* The token ledger (src/src/core/Tokenomics.js).  Amounts are whole tokens.
\* tokenomics.ledger is this.ledger and tokenomics.totalSupply is
\* this.totalSupply; accounts and supply are the persisted acct:<address>
\* and totalSupply records; writes are the db.put calls issued and not yet
\* settled, each tagged with the call that issued it.

AddressInputs == {"a", "b", ""}
AmountInputs == {0, 1}

validateAddress(address) == address /= ""
\* Number.isFinite(amount) && amount >= MIN_TRANSFER_AMOUNT, on whole tokens
validateAmount(amount) == amount >= 1

\* this.ledger.get(address) || 0
BalanceOf(address) ==
  IF address \in DOMAIN tokenomics.ledger THEN tokenomics.ledger[address] ELSE 0

RECURSIVE SumBalances(_)
SumBalances(f) ==
  IF DOMAIN f = {} THEN 0
  ELSE LET a == CHOOSE x \in DOMAIN f : TRUE
       IN f[a] + SumBalances([ x \in DOMAIN f \ {a} |-> f[x] ])

TokenCall(op, address, to, amount) ==
  [ id |-> tokenomics.invoked + 1, op |-> op, address |-> address, to |-> to,
    amount |-> amount, currentBalance |-> BalanceOf(address),
    toBalance |-> BalanceOf(to), previousTotalSupply |-> tokenomics.totalSupply,
    acked |-> 0, failed |-> FALSE ]

TokenWrite(n, key, value) ==
  [ call |-> tokenomics.invoked + 1, n |-> n, key |-> key, value |-> value ]

CanInvokeToken == tokenomics.invoked < MaxOps

\* mint or transfer throws before it changes anything: an invalid address or
\* amount, or a sender that does not hold the amount.
TokenRejected(op, address, to, amount) ==
  /\ CanInvokeToken
  /\ \/ ~validateAddress(address)
     \/ ~validateAmount(amount)
     \/ op = "transfer" /\ (~validateAddress(to) \/ BalanceOf(address) < amount)
  /\ tokenomics' = [tokenomics EXCEPT !.invoked = @ + 1, !.ret = "rejected"]
  /\ UNCHANGED << matrixVars, network, miner >>

\* mint(address, amount) up to its await: the balance and the supply are
\* raised in memory and both writes are issued with the values just set.
Mint(address, amount) ==
  /\ CanInvokeToken
  /\ validateAddress(address)
  /\ validateAmount(amount)
  /\ LET newBalance == BalanceOf(address) + amount
         supply == tokenomics.totalSupply + amount
     IN tokenomics' =
          [tokenomics EXCEPT
             !.ledger = Put(@, address, newBalance),
             !.totalSupply = supply,
             !.calls = Append(@, TokenCall("mint", address, address, amount)),
             !.writes = @ \cup { TokenWrite(1, "totalSupply", supply),
                                 TokenWrite(2, address, newBalance) },
             !.invoked = @ + 1]
  /\ UNCHANGED << matrixVars, network, miner >>

\* transfer(fromAddress, toAddress, amount) up to its await: both balances
\* were read before either is set, then saveAccount reads each back.
Transfer(fromAddress, toAddress, amount) ==
  /\ CanInvokeToken
  /\ validateAddress(fromAddress) /\ validateAddress(toAddress)
  /\ validateAmount(amount)
  /\ BalanceOf(fromAddress) >= amount
  /\ LET fromBalance == BalanceOf(fromAddress)
         toBalance == BalanceOf(toAddress)
         debited == Put(tokenomics.ledger, fromAddress, fromBalance - amount)
         credited == Put(debited, toAddress, toBalance + amount)
     IN tokenomics' =
          [tokenomics EXCEPT
             !.ledger = credited,
             !.calls = Append(@, TokenCall("transfer", fromAddress, toAddress, amount)),
             !.writes = @ \cup { TokenWrite(1, fromAddress, credited[fromAddress]),
                                 TokenWrite(2, toAddress, credited[toAddress]) },
             !.invoked = @ + 1]
  /\ UNCHANGED << matrixVars, network, miner >>

\* The calls in flight after a write of call id settled.
Settled(id, ok) ==
  [ i \in 1..Len(tokenomics.calls) |->
      IF tokenomics.calls[i].id /= id THEN tokenomics.calls[i]
      ELSE IF ok THEN [tokenomics.calls[i] EXCEPT !.acked = @ + 1]
      ELSE [tokenomics.calls[i] EXCEPT !.failed = TRUE] ]

\* A db.put is applied and acknowledged.
TokenWriteLands(w) ==
  /\ w \in tokenomics.writes
  /\ tokenomics' =
       [tokenomics EXCEPT
          !.writes = @ \ {w},
          !.supply = IF w.key = "totalSupply" THEN w.value ELSE @,
          !.accounts = IF w.key = "totalSupply" THEN @ ELSE Put(@, w.key, w.value),
          !.calls = Settled(w.call, TRUE)]
  /\ UNCHANGED << matrixVars, network, miner >>

\* A db.put is rejected by the store.
TokenWriteFails(w) ==
  /\ w \in tokenomics.writes
  /\ tokenomics' = [tokenomics EXCEPT !.writes = @ \ {w},
                                      !.calls = Settled(w.call, FALSE)]
  /\ UNCHANGED << matrixVars, network, miner >>

TokenAt(i, op) == i \in 1..Len(tokenomics.calls) /\ tokenomics.calls[i].op = op

\* Promise.all resolved: both writes were acknowledged and the call returns true.
TokenResolved(i) ==
  /\ i \in 1..Len(tokenomics.calls)
  /\ tokenomics.calls[i].acked = 2
  /\ ~tokenomics.calls[i].failed
  /\ tokenomics' = [tokenomics EXCEPT !.calls = Without(@, i), !.ret = "resolved"]
  /\ UNCHANGED << matrixVars, network, miner >>

\* The catch block of mint: the balance and the supply read at the start of
\* the call are put back.
MintFailed(i) ==
  /\ TokenAt(i, "mint")
  /\ tokenomics.calls[i].failed
  /\ LET call == tokenomics.calls[i]
     IN tokenomics' =
          [tokenomics EXCEPT
             !.ledger = IF call.address \in DOMAIN @
                        THEN Put(@, call.address, call.currentBalance) ELSE @,
             !.totalSupply = call.previousTotalSupply,
             !.calls = Without(@, i),
             !.ret = "rejected"]
  /\ UNCHANGED << matrixVars, network, miner >>

\* The catch block of transfer: both balances read at the start are put back.
TransferFailed(i) ==
  /\ TokenAt(i, "transfer")
  /\ tokenomics.calls[i].failed
  /\ LET call == tokenomics.calls[i]
     IN tokenomics' =
          [tokenomics EXCEPT
             !.ledger = Put(Put(@, call.address, call.currentBalance),
                            call.to, call.toBalance),
             !.calls = Without(@, i),
             !.ret = "rejected"]
  /\ UNCHANGED << matrixVars, network, miner >>

TokenNext ==
  \/ \E op \in {"mint", "transfer"}, address \in AddressInputs, to \in AddressInputs,
        amount \in AmountInputs : TokenRejected(op, address, to, amount)
  \/ \E address \in AddressInputs, amount \in AmountInputs : Mint(address, amount)
  \/ \E fromAddress \in AddressInputs, toAddress \in AddressInputs,
        amount \in AmountInputs : Transfer(fromAddress, toAddress, amount)
  \/ \E w \in tokenomics.writes : TokenWriteLands(w)
  \/ \E w \in tokenomics.writes : TokenWriteFails(w)
  \/ \E i \in 1..Len(tokenomics.calls) : TokenResolved(i)
  \/ \E i \in 1..Len(tokenomics.calls) : MintFailed(i)
  \/ \E i \in 1..Len(tokenomics.calls) : TransferFailed(i)

TokenSpec == EventInit /\ [][TokenNext]_vars

\* What call did to the balance of address a when it started.
EffectOn(call, a) ==
  IF call.op = "mint" THEN (IF a = call.address THEN call.amount ELSE 0)
  ELSE IF call.address = call.to THEN (IF a = call.address THEN call.amount ELSE 0)
  ELSE IF a = call.address THEN 0 - call.amount
  ELSE IF a = call.to THEN call.amount
  ELSE 0

BalanceIn(f, a) == IF a \in DOMAIN f THEN f[a] ELSE 0

\* C33: in the step in which a mint or transfer call fails, the balances and
\* the supply in memory become what they would be had the call not been
\* made: its own change is taken back and the changes of the other calls stay.
C33_FailedCallTakenBack ==
  [][ \A i \in 1..Len(tokenomics.calls) :
        ( /\ tokenomics.calls[i].failed
          /\ tokenomics'.calls = Without(tokenomics.calls, i)
          /\ tokenomics'.ret = "rejected" )
        => /\ \A a \in AddressInputs :
                BalanceIn(tokenomics'.ledger, a)
                  = BalanceIn(tokenomics.ledger, a) - EffectOn(tokenomics.calls[i], a)
           /\ tokenomics'.totalSupply
                = tokenomics.totalSupply
                  - (IF tokenomics.calls[i].op = "mint" THEN tokenomics.calls[i].amount ELSE 0)
    ]_vars

\* C34: the balances of the ledger add up to the total supply.
C34_BalancesAddUpToSupply ==
  SumBalances(tokenomics.ledger) = tokenomics.totalSupply

----------------------------------------------------------------------------
\* The collaborator settles every updateLedger call it was handed.
LedgerFairSpec ==
  LedgerSpec /\ WF_vars(\E k \in DOMAIN ledger.syncs : SyncLedgerUpdated(k) \/ SyncLedgerFailed(k))

\* The SYNC_LEDGER requests handled from ws, those still with the
\* collaborator, and the answers ws has been sent.
SyncRequests(ws) ==
  { i \in DOMAIN handled : handled[i].ws = ws /\ handled[i].message.type = "SYNC_LEDGER" }
SyncPending(ws) == { k \in DOMAIN ledger.syncs : ledger.syncs[k].ws = ws }
SyncAnswers(ws) ==
  Len(SentOfType(ws, "SYNC_LEDGER_CONFIRMATION")) + Len(SentOfType(ws, "ERROR"))

\* C39: on every connection that is open, each SYNC_LEDGER handled has either
\* its one answer, SYNC_LEDGER_CONFIRMATION or ERROR, or its update still
\* with the collaborator, and every update leaves the collaborator; with no
\* collaborator configured every answer is an ERROR and updateLedger is never
\* called.
C39_EverySyncAnsweredOnce ==
  /\ [] \A ws \in DOMAIN sockets :
          sockets[ws].readyState = "OPEN" =>
            /\ Cardinality(SyncRequests(ws)) = SyncAnswers(ws) + Cardinality(SyncPending(ws))
            /\ ~ledger.dbConnection =>
                 /\ SentOfType(ws, "SYNC_LEDGER_CONFIRMATION") = << >>
                 /\ LedgerCalls("updateLedger", TRUE) = {}
  /\ \A ws \in 1..MaxLinks : (SyncPending(ws) /= {}) ~> (SyncPending(ws) = {})

\* With no collaborator configured a requester has sent two batches and has
\* the two ERROR envelopes after the greeting on its open connection.
C39_Witness ==
  \E ws \in DOMAIN sockets :
    /\ ~ledger.dbConnection
    /\ sockets[ws].readyState = "OPEN"
    /\ Cardinality(SyncRequests(ws)) = 2
    /\ SyncAnswers(ws) = 2
    /\ ledger.calls = << >>

----------------------------------------------------------------------------
\* A node that shuts down while peers still send: buffers arrive on the
\* connections close() did not ask to close.
StrandedNext ==
  \/ ShutdownNext
  \/ \E ws \in DOMAIN sockets, kind \in RawKinds : Turns /\ HandleMessageInvalid(ws, kind)
  \/ \E ws \in DOMAIN sockets, kind \in RawKinds : Turns /\ HandleMessageStranded(ws, kind)
  \/ \E ws \in DOMAIN sockets : Turns /\ HandleMessageUnknown(ws, Message("PING"))

StrandedSpec == NodeInit /\ [][StrandedNext]_vars

\* C40: in a step in which handleMessage gets a buffer on a connection whose
\* peer is not in the active set, nothing is sent on the connection, the
\* store and the active set stay as they are and the connection is
\* terminated.
C40_StrandedMessageDropped ==
  [][ \A ws \in DOMAIN sockets : \A kind \in RawKinds :
        ( /\ Len(handled') = Len(handled) + 1
          /\ handled'[Len(handled')].ws = ws
          /\ handled'[Len(handled')].kind = kind
          /\ ~SenderKnown(ws) )
        => /\ sockets'[ws].sent = sockets[ws].sent
           /\ sockets'[ws].readyState /= "OPEN"
           /\ peers' = peers
           /\ UNCHANGED matrixVars ]_vars

----------------------------------------------------------------------------
\* The DISCOVERY envelopes sent on the sockets so far.
DiscoverySent(socks) ==
  [ ws \in DOMAIN socks |-> Len(SelectSeq(socks[ws].sent, LAMBDA m : m.type = "DISCOVERY")) ]

\* C38: in a step taken after close() was called no peer is added to the
\* active set and no DISCOVERY envelope is sent on any socket, and once
\* close() has returned the active set is empty.
C38_NoPeerNoDiscoveryAfterClose ==
  /\ [][ shutdown.pc /= "running" =>
           /\ DOMAIN peers' \subseteq DOMAIN peers
           /\ \A ws \in DOMAIN sockets : DiscoverySent(sockets')[ws] = DiscoverySent(sockets)[ws]
       ]_vars
  /\ [] (shutdown.pc = "returned" => PeersSize = 0)

----------------------------------------------------------------------------
\* Two nodes, each with a store: this node and the one that dials it.  Each
\* announces the triads it creates; the other applies what it receives.

\* The second node's createTriad has emitted 'triadCreated' and its listener
\* broadcasts NEW_TRIAD to its peers.
PairRemoteCreated(triad) ==
  /\ remote.sockets /= << >>
  /\ ~\E n \in DOMAIN remote.sockets[1].sent : remote.sockets[1].sent[n] = NewTriad(triad)
  /\ LET told == broadcast(remote.peers, remote.sockets, NewTriad(triad), NoPeerId)
     IN remote' = [remote EXCEPT !.peers = told.peers, !.sockets = told.sockets]
  /\ UNCHANGED << peers, sockets, fault, ledger, handled, shutdown >>
  /\ UNCHANGED << matrixVars, client >>

\* The payload is applied as a local create would be: its 'triadCreated'
\* listener announces it to every peer, the sender included.
MutPairNewTriadAtLocal_Echoes ==
  /\ NextAtLocal.type = "NEW_TRIAD"
  /\ sockets[remote.link].listeners
  /\ sockets[remote.link].readyState = "OPEN"
  /\ SenderKnown(remote.link)
  /\ IF NextAtLocal.triad.id \in DOMAIN dbTriads \cup DOMAIN triads
     THEN UNCHANGED << dbTriads, triads, matrix >>
     ELSE /\ dbTriads' = Put(dbTriads, NextAtLocal.triad.id, NextAtLocal.triad)
          /\ triads' = Put(triads, NextAtLocal.triad.id, NextAtLocal.triad)
          /\ matrix' = Append(matrix, NextAtLocal.triad)
  /\ LET told == broadcast(peers, sockets, NextAtLocal, NoPeerId)
     IN peers' = told.peers /\ sockets' = told.sockets
  /\ remote' = [remote EXCEPT !.delivered = @ + 1]
  /\ UNCHANGED << config, validators, isInitialized, dbMeta, calls, invoked, emitted, ret,
                  evaluated >>
  /\ UNCHANGED << fault, ledger, handled, shutdown, client >>

\* case NEW_TRIAD on this node, handleNewTriad(message, peerId), for the
\* envelope of the second node: the payload is inserted under its id unless
\* the id is present, and nothing is sent.
PairNewTriadAtLocal ==
  /\ NextAtLocal.type = "NEW_TRIAD"
  /\ sockets[remote.link].listeners
  /\ sockets[remote.link].readyState = "OPEN"
  /\ SenderKnown(remote.link)
  /\ IF NextAtLocal.triad.id \in DOMAIN dbTriads \cup DOMAIN triads
     THEN UNCHANGED << dbTriads, triads, matrix >>
     ELSE /\ dbTriads' = Put(dbTriads, NextAtLocal.triad.id, NextAtLocal.triad)
          /\ triads' = Put(triads, NextAtLocal.triad.id, NextAtLocal.triad)
          /\ matrix' = Append(matrix, NextAtLocal.triad)
  /\ remote' = [remote EXCEPT !.delivered = @ + 1]
  /\ UNCHANGED << config, validators, isInitialized, dbMeta, calls, invoked, emitted, ret,
                  evaluated >>
  /\ UNCHANGED << peers, sockets, fault, ledger, handled, shutdown, client >>

\* case NEW_TRIAD on the second node: it applies the payload to its own store
\* and sends nothing.
PairNewTriadAtRemote ==
  /\ NextAtRemote.type = "NEW_TRIAD"
  /\ remote.sockets[1].readyState = "OPEN"
  /\ findPeerIdByWs(remote.peers, 1, 1) \in DOMAIN remote.peers
  /\ remote' = [remote EXCEPT !.received = @ + 1]
  /\ UNCHANGED << peers, sockets, fault, ledger, handled, shutdown >>
  /\ UNCHANGED << matrixVars, client >>

RelayNext ==
  \/ PairConnect
  \/ Len(sockets) < MaxLinks /\ PairAccept
  \/ PairOpen
  \/ PairHandshakeAtLocal
  \/ PairDiscoveryAtLocal
  \/ PairHandshakeAtRemote
  \/ PairPeersAtRemote
  \/ calls = << >> /\ CreateTriad("data", "v1", <<2, 2, 2>>)
  \/ \E i \in 1..Len(calls) : CreateTriadPutLands(i)
  \/ \E i \in 1..Len(calls) : CreateTriadSave(i)
  \/ \E i \in 1..Len(calls) : CreateTriadSaveLands(i)
  \/ \E i \in 1..Len(calls) : EmitTriadCreated(i)
  \/ \E triad \in NewTriadInputs : PairRemoteCreated(triad)
  \/ PairNewTriadAtLocal
  \/ PairNewTriadAtRemote

RelaySpec == EventInit /\ [][RelayNext]_vars

\* Every envelope sent on the open link between the two nodes is handled.
RelayFairSpec ==
  /\ RelaySpec
  /\ WF_vars(PairAccept) /\ WF_vars(PairOpen)
  /\ WF_vars(PairHandshakeAtLocal) /\ WF_vars(PairDiscoveryAtLocal)
  /\ WF_vars(PairHandshakeAtRemote) /\ WF_vars(PairPeersAtRemote)
  /\ WF_vars(PairNewTriadAtLocal) /\ WF_vars(PairNewTriadAtRemote)

\* The positions of the NEW_TRIAD envelopes in what was sent on a socket.
Announcements(sent) == { n \in DOMAIN sent : sent[n].type = "NEW_TRIAD" }

\* A NEW_TRIAD envelope was sent and its receiver has not handled it yet.
NewTriadInFlight ==
  \/ /\ remote.link /= 0
     /\ \E n \in Announcements(sockets[remote.link].sent) : n > remote.received
  \/ /\ remote.sockets /= << >>
     /\ \E n \in Announcements(remote.sockets[1].sent) : n > remote.delivered

====
